---- MODULE Spec2Model ----
(***************************************************************************)
(* A model of the GitHub spider (services/scraper/github_spider.py): one   *)
(* crawl session of GitHubSpider, its two discovery tiers, the bounded     *)
(* content fetch and the blueprint assembly, together with the pure path   *)
(* and content helpers.  Strings are sequences of one-character strings,   *)
(* so that cleaning, validation, slicing and ordering are computed         *)
(* character by character, as Python computes them.                        *)
(***************************************************************************)
EXTENDS Integers, Sequences, FiniteSets, TLC

(***************************************************************************)
(* Characters and strings.                                                 *)
(***************************************************************************)
\* The printable ASCII characters in code-point order, from 32 (space) to 126;
\* the grave accent (96) is written "<backtick>", as the lexer rejects it in a
\* string.
Ascii ==
    <<" ", "!", "\"", "#", "$", "%", "&", "'", "(", ")", "*", "+", ",", "-", ".", "/", "0",
       "1", "2", "3", "4", "5", "6", "7", "8", "9", ":", ";", "<", "=", ">", "?", "@", "A", "B", "C", "D", "E", "F", "G", "H",
       "I", "J", "K", "L", "M", "N", "O", "P", "Q", "R", "S", "T", "U", "V", "W", "X", "Y", "Z", "[", "\\", "]", "^", "_", "<backtick>", "a", "b", "c", "d", "e", "f", "g", "h", "i", "j", "k", "l", "m", "n", "o", "p",
       "q", "r", "s", "t", "u", "v", "w", "x", "y", "z", "{", "|", "}", "~">>
UI_NOISE_PREFIXES ==
    << <<"S", "k", "i", "p", " ", "t", "o", " ", "c", "o", "n", "t", "e", "n", "t", "/">>,
       <<"S", "k", "i", "p", " ", "t", "o", " ", "c", "o", "n", "t", "e", "n", "t">>,
       <<"N", "a", "v", "i", "g", "a", "t", "i", "o", "n", " ", "M", "e", "n", "u", "/">>,
       <<"N", "a", "v", "i", "g", "a", "t", "i", "o", "n", " ", "M", "e", "n", "u">>,
       <<"G", "o", " ", "t", "o", " ", "f", "i", "l", "e", "/">>,
       <<"G", "o", " ", "t", "o", " ", "f", "i", "l", "e">>,
       <<"S", "e", "a", "r", "c", "h", " ", "s", "y", "n", "t", "a", "x", " ", "t", "i", "p", "s", "/">>,
       <<"S", "e", "a", "r", "c", "h", " ", "s", "y", "n", "t", "a", "x", " ", "t", "i", "p", "s">>,
       <<"F", "o", "o", "t", "e", "r", "/">>,
       <<"F", "o", "o", "t", "e", "r">> >>
UI_NOISE_PATTERNS ==
    << <<"s", "k", "i", "p", " ", "t", "o", " ", "c", "o", "n", "t", "e", "n", "t">>,
       <<"n", "a", "v", "i", "g", "a", "t", "i", "o", "n", " ", "m", "e", "n", "u">>,
       <<"g", "o", " ", "t", "o", " ", "f", "i", "l", "e">>,
       <<"f", "o", "o", "t", "e", "r">>,
       <<"s", "e", "a", "r", "c", "h", " ", "s", "y", "n", "t", "a", "x", " ", "t", "i", "p", "s">> >>
NOISE_SEGMENTS ==
    { <<"s", "k", "i", "p", " ", "t", "o", " ", "c", "o", "n", "t", "e", "n", "t">>,
       <<"n", "a", "v", "i", "g", "a", "t", "i", "o", "n", " ", "m", "e", "n", "u">>,
       <<"g", "o", " ", "t", "o", " ", "f", "i", "l", "e">>,
       <<"f", "o", "o", "t", "e", "r">>,
       <<"a", "c", "t", "i", "o", "n", "s">>,
       <<"a", "u", "t", "o", "f", "i", "x">>,
       <<"s", "e", "a", "r", "c", "h", " ", "s", "y", "n", "t", "a", "x", " ", "t", "i", "p", "s">> }
TARGET_DIRS ==
    { <<"s", "r", "c">>,
       <<"a", "p", "p">>,
       <<"l", "i", "b">>,
       <<"b", "a", "c", "k", "e", "n", "d">>,
       <<"f", "r", "o", "n", "t", "e", "n", "d">> }
KEY_FILES ==
    { <<"p", "a", "c", "k", "a", "g", "e", ".", "j", "s", "o", "n">>,
       <<"r", "e", "a", "d", "m", "e", ".", "m", "d">>,
       <<"t", "s", "c", "o", "n", "f", "i", "g", ".", "j", "s", "o", "n">>,
       <<"n", "e", "x", "t", ".", "c", "o", "n", "f", "i", "g", ".", "j", "s">>,
       <<"n", "e", "x", "t", ".", "c", "o", "n", "f", "i", "g", ".", "t", "s">>,
       <<"n", "e", "x", "t", ".", "c", "o", "n", "f", "i", "g", ".", "m", "j", "s">>,
       <<".", "e", "n", "v", ".", "e", "x", "a", "m", "p", "l", "e">>,
       <<"d", "o", "c", "k", "e", "r", "-", "c", "o", "m", "p", "o", "s", "e", ".", "y", "m", "l">>,
       <<"d", "o", "c", "k", "e", "r", "f", "i", "l", "e">>,
       <<"r", "e", "q", "u", "i", "r", "e", "m", "e", "n", "t", "s", ".", "t", "x", "t">>,
       <<"p", "y", "p", "r", "o", "j", "e", "c", "t", ".", "t", "o", "m", "l">>,
       <<"m", "a", "n", "a", "g", "e", ".", "p", "y">>,
       <<"c", "a", "r", "g", "o", ".", "t", "o", "m", "l">>,
       <<"g", "o", ".", "m", "o", "d">> }
KEY_KEYWORDS ==
    { <<"a", "u", "t", "h">>,
       <<"m", "i", "d", "d", "l", "e", "w", "a", "r", "e">>,
       <<"c", "o", "n", "t", "r", "o", "l", "l", "e", "r">>,
       <<"r", "o", "u", "t", "e">>,
       <<"s", "e", "r", "v", "i", "c", "e">>,
       <<"p", "r", "o", "v", "i", "d", "e", "r">>,
       <<"g", "u", "a", "r", "d">>,
       <<"i", "n", "t", "e", "r", "c", "e", "p", "t", "o", "r">>,
       <<"m", "o", "d", "u", "l", "e">>,
       <<"c", "o", "n", "f", "i", "g">>,
       <<"d", "a", "t", "a", "b", "a", "s", "e">>,
       <<"s", "c", "h", "e", "m", "a">>,
       <<"m", "o", "d", "e", "l">>,
       <<"m", "i", "g", "r", "a", "t", "i", "o", "n">>,
       <<"a", "p", "i">> }

STR_404 == <<"4", "0", "4">>

STR_404_NOT_FOUND == <<"4", "0", "4", ":", " ", "n", "o", "t", " ", "f", "o", "u", "n", "d">>

STR_HTML == <<"<", "h", "t", "m", "l">>

STR_NOT_FOUND == <<"n", "o", "t", " ", "f", "o", "u", "n", "d">>

CANDIDATE_BRANCHES ==
    << <<"m", "a", "i", "n">>,
       <<"m", "a", "s", "t", "e", "r">>,
       <<"d", "e", "v", "e", "l", "o", "p">>,
       <<"d", "e", "v">> >>

MAIN == CANDIDATE_BRANCHES[1]

CONCURRENCY_LIMIT == 8

MAX_KEY_FILES == 60

RAW_CONTENT_CAP == 8192

BLUEPRINT_CONTENT_CAP == 4096

DEBUG_HTML_CAP == 5000

VALIDATION_WINDOW == 200

MAX_DEPTH == 4

\* The characters str.strip() and the regex class \s remove (ASCII).
Whitespace == {" ", "\t", "\n", "\r", "\f"}

AsciiIndex == [c \in {Ascii[i] : i \in 1..Len(Ascii)} |->
                 CHOOSE i \in 1..Len(Ascii) : Ascii[i] = c]

\* The code point of a character: the order Python compares strings by.
Code(c) ==
    CASE c = "\t" -> 9
      [] c = "\n" -> 10
      [] c = "\f" -> 12
      [] c = "\r" -> 13
      [] OTHER    -> 31 + AsciiIndex[c]

LowerChar(c) ==
    IF Code(c) >= 65 /\ Code(c) <= 90 THEN Ascii[Code(c) + 32 - 31] ELSE c

\* str.lower()
Lower(s) == [i \in 1..Len(s) |-> LowerChar(s[i])]

SetMin(S) == CHOOSE x \in S : \A y \in S : x <= y

\* The greatest element, found as the least of the negated ones.
SetMax(S) == 0 - SetMin({0 - x : x \in S})

\* s[n:]
Drop(s, n) == SubSeq(s, n + 1, Len(s))

\* s[:n]
Take(s, n) == SubSeq(s, 1, IF n < Len(s) THEN n ELSE Len(s))

\* str.strip(chars): the characters of cs removed from both ends.
StripChars(s, cs) ==
    LET keep == {i \in 1..Len(s) : s[i] \notin cs}
    IN  IF keep = {} THEN <<>> ELSE SubSeq(s, SetMin(keep), SetMax(keep))

\* str.strip()
Strip(s) == StripChars(s, Whitespace)

\* str.startswith(p)
StartsWith(s, p) == Len(p) <= Len(s) /\ SubSeq(s, 1, Len(p)) = p

\* sub in s
Contains(s, sub) ==
    \E i \in 0..(Len(s) - Len(sub)) : SubSeq(s, i + 1, i + Len(sub)) = sub

\* str.count(c) for a single character c
Count(s, c) == Cardinality({i \in 1..Len(s) : s[i] = c})

\* str.split(c): the segments between the occurrences of c, empty ones kept.
RECURSIVE Split(_, _)
Split(s, c) ==
    LET at == {i \in 1..Len(s) : s[i] = c}
    IN  IF at = {} THEN <<s>>
        ELSE <<SubSeq(s, 1, SetMin(at) - 1)>> \o Split(Drop(s, SetMin(at)), c)

\* c.join(parts)
RECURSIVE Join(_, _)
Join(parts, c) ==
    IF parts = <<>> THEN <<>>
    ELSE IF Len(parts) = 1 THEN parts[1]
    ELSE parts[1] \o <<c>> \o Join(Tail(parts), c)

Range(f) == {f[i] : i \in DOMAIN f}

(***************************************************************************)
(* Path cleaning and validation.                                           *)
(***************************************************************************)

\* The loop over _UI_NOISE_PREFIXES: each prefix, in list order, is removed
\* once if the string starts with it at that moment.
RECURSIVE StripNoisePrefixes(_, _)
StripNoisePrefixes(s, k) ==
    IF k > Len(UI_NOISE_PREFIXES) THEN s
    ELSE IF StartsWith(s, UI_NOISE_PREFIXES[k])
    THEN StripNoisePrefixes(Drop(s, Len(UI_NOISE_PREFIXES[k])), k + 1)
    ELSE StripNoisePrefixes(s, k + 1)

\* _UI_NOISE_PATTERNS.sub("", s): the pattern is anchored at the start, so it
\* matches at most once: one noise word in any letter case, then the longest
\* run of "/", "\" and whitespace.
NoisePatternSub(s) ==
    LET hits == {k \in 1..Len(UI_NOISE_PATTERNS) :
                    StartsWith(Lower(s), UI_NOISE_PATTERNS[k])}
    IN  IF hits = {} THEN s
        ELSE LET rest == Drop(s, Len(UI_NOISE_PATTERNS[SetMin(hits)]))
                 stop == {i \in 1..Len(rest) :
                             rest[i] \notin (Whitespace \cup {"/", "\\"})}
             IN  IF stop = {} THEN <<>> ELSE Drop(rest, SetMin(stop) - 1)

IsNoiseSegment(p) == p = <<>> \/ Lower(p) \in NOISE_SEGMENTS

\* [p for p in parts if p and p.lower() not in {...}]
RECURSIVE DropNoiseSegments(_)
DropNoiseSegments(parts) ==
    IF parts = <<>> THEN <<>>
    ELSE (IF IsNoiseSegment(parts[1]) THEN <<>> ELSE <<parts[1]>>)
             \o DropNoiseSegments(Tail(parts))

\* _clean_path ("" stays "": every step of the function leaves it empty)
clean_path(path) ==
    IF path = <<>> THEN <<>>
    ELSE LET a == StripNoisePrefixes(Strip(path), 1)
             b == NoisePatternSub(a)
             c == Strip(StripChars(Strip(b), {"/"}))
         IN  Join(DropNoiseSegments(Split(c, "/")), "/")

\* re.match(r"^[A-Z][a-z]+ .{20,}", path)
LooksLikeProse(path) ==
    /\ Len(path) >= 1
    /\ Code(path[1]) >= 65 /\ Code(path[1]) <= 90
    /\ \E k \in 2..Len(path) :
          /\ \A i \in 2..k : Code(path[i]) >= 97 /\ Code(path[i]) <= 122
          /\ Len(path) >= k + 21
          /\ path[k + 1] = " "
          /\ \A i \in (k + 2)..(k + 21) : path[i] # "\n"

\* _is_valid_path
is_valid_path(path) ==
    /\ path # <<>>
    /\ ~Contains(path, <<";">>)
    /\ \A j \in DOMAIN Split(path, "/") : Count(Split(path, "/")[j], " ") <= 3
    /\ ~LooksLikeProse(path)

\* _is_key_file
is_key_file(filename) ==
    \/ Lower(filename) \in KEY_FILES
    \/ \E kw \in KEY_KEYWORDS : Contains(Lower(filename), kw)

\* A test that finds no path under a target directory.
NeverInTargetDir(filepath) == FALSE

\* _is_in_target_dir
is_in_target_dir(filepath) ==
    \E p \in Range(Split(Lower(filepath), "/")) : p \in TARGET_DIRS

(***************************************************************************)
(* Content validation and the raw-content request.                         *)
(***************************************************************************)

\* _is_valid_content
is_valid_content(content) ==
    LET trimmed == Lower(Take(Strip(content), VALIDATION_WINDOW))
    IN  /\ content # <<>>
        /\ Strip(content) # <<>>
        /\ ~StartsWith(trimmed, STR_404)
        /\ ~Contains(trimmed, STR_404_NOT_FOUND)
        /\ ~(Contains(trimmed, STR_HTML) /\ Contains(trimmed, STR_NOT_FOUND))

\* What one HTTP exchange can come to: a response with a status and a body, or
\* an exception raised by the client (timeout, transport error, decoding).
RespOk(body) == [kind |-> "response", status |-> 200, body |-> body]

RespStatus(code) == [kind |-> "response", status |-> code, body |-> <<>>]

RespRaise == [kind |-> "raise", status |-> 0, body |-> <<>>]

\* A fetch that returns the validated body whole.
fetch_raw_content_whole(resp) ==
    IF resp.kind = "raise" THEN <<>>
    ELSE IF resp.status # 200 THEN <<>>
    ELSE IF ~is_valid_content(resp.body) THEN <<>>
    ELSE resp.body

\* _fetch_raw_content, from the response on: "" unless the status is 200 and
\* the body is valid content; the content is cut to RAW_CONTENT_CAP characters.
fetch_raw_content(resp) ==
    IF resp.kind = "raise" THEN <<>>
    ELSE IF resp.status # 200 THEN <<>>
    ELSE IF ~is_valid_content(resp.body) THEN <<>>
    ELSE Take(resp.body, RAW_CONTENT_CAP)

\* The guard that opens _fetch_raw_content and _fetch_single_content: no request
\* is made for a path that cleans to nothing or to an invalid path.
Fetchable(filepath) ==
    clean_path(filepath) # <<>> /\ is_valid_path(clean_path(filepath))

\* _fetch_single_content hands _fetch_raw_content the cleaned path, which cleans
\* it once more behind the same guard: a request goes out only for a path that
\* passes it after the second cleaning as well.
Requested(filepath) == Fetchable(clean_path(filepath))

\* The list "branches" of _fetch_single_content: the session branch, then the
\* candidate branches other than it, in declared order.
RECURSIVE OtherBranches(_, _)
OtherBranches(b, k) ==
    IF k > Len(CANDIDATE_BRANCHES) THEN <<>>
    ELSE (IF CANDIDATE_BRANCHES[k] # b THEN <<CANDIDATE_BRANCHES[k]>> ELSE <<>>)
             \o OtherBranches(b, k + 1)

\* A faulty list, for comparison: the session branch, then every candidate,
\* the session branch among them once more.
FetchBranchesRepeating(b) == <<b>> \o CANDIDATE_BRANCHES

FetchBranches(b) == <<b>> \o OtherBranches(b, 1)

(***************************************************************************)
(* The structured tier: the tree request and the processing of its entries. *)
(***************************************************************************)

\* dict insertion: an existing key keeps its place and gets the new value.
DictPut(d, key, content) ==
    IF \E i \in DOMAIN d : d[i].key = key
    THEN [i \in DOMAIN d |->
             IF d[i].key = key
             THEN [key |-> key, path |-> key, content |-> content] ELSE d[i]]
    ELSE Append(d, [key |-> key, path |-> key, content |-> content])

DictHas(d, key) == \E i \in DOMAIN d : d[i].key = key

\* A tree response of the API: the value _fetch_tree_via_api returns, NoTree for
\* None.  A non-200 status, an exception (also the one resp.json() raises on a
\* body that is not JSON) and a JSON value that is no object (data.get raises)
\* all give None; an object without "tree" gives the empty list.
NoTree == [none |-> TRUE, tree |-> <<>>]

fetch_tree_via_api(aiohttp, resp) ==
    IF ~aiohttp THEN NoTree
    ELSE IF resp.kind = "raise" THEN NoTree
    ELSE IF resp.status # 200 THEN NoTree
    ELSE IF resp.json = "invalid" THEN NoTree
    ELSE IF resp.json = "not_object" THEN NoTree
    ELSE IF resp.json = "no_tree" THEN [none |-> FALSE, tree |-> <<>>]
    ELSE [none |-> FALSE, tree |-> resp.tree]

\* "if api_tree and len(api_tree) > 0"
TreeUsable(t) == ~t.none /\ Len(t.tree) > 0

\* The cap test of the first pass of _process_api_tree.
UnderCap(kf) == Len(kf) < MAX_KEY_FILES

\* One turn of the first loop of _process_api_tree.  acc holds the file list,
\* the key-file map and whether an entry raised (an entry that is no dict has
\* no .get), which ends the function.
ApiFirstStep(entry, acc) ==
    IF acc.raised THEN acc
    ELSE IF ~entry.dict THEN [acc EXCEPT !.raised = TRUE]
    ELSE LET clean == clean_path(entry.path)
             last  == Split(clean, "/")[Len(Split(clean, "/"))]
         IN  IF clean = <<>> \/ ~is_valid_path(clean) THEN acc
             ELSE IF entry.type # "blob" THEN acc
             ELSE [acc EXCEPT
                     !.file_tree = Append(@, clean),
                     !.key_files =
                        IF (is_key_file(last) \/ is_in_target_dir(clean))
                           /\ UnderCap(@)
                        THEN DictPut(@, clean, <<>>) ELSE @]

\* The first loop over the entries lo..hi, in order.  The range is halved so
\* that the evaluation stays shallow on a long tree.
RECURSIVE ApiFirstPass(_, _, _, _)
ApiFirstPass(tree, lo, hi, acc) ==
    IF lo > hi THEN acc
    ELSE IF lo = hi THEN ApiFirstStep(tree[lo], acc)
    ELSE LET mid  == (lo + hi) \div 2
             left == ApiFirstPass(tree, lo, mid, acc)
         IN  IF left.raised THEN left
             ELSE ApiFirstPass(tree, mid + 1, hi, left)

\* A second loop that stops at the cap, for comparison.
ApiSecondStepCapped(entry, acc) ==
    IF acc.raised THEN acc
    ELSE IF ~entry.dict THEN [acc EXCEPT !.raised = TRUE]
    ELSE IF /\ entry.type = "blob"
            /\ ~Contains(entry.path, <<"/">>)
            /\ Lower(entry.path) \in KEY_FILES
            /\ ~DictHas(acc.key_files, entry.path)
            /\ UnderCap(acc.key_files)
         THEN [acc EXCEPT !.key_files = DictPut(@, entry.path, <<>>)]
         ELSE acc

\* One turn of the second loop: a well-known file at the root is registered
\* under its raw path unless that path is a key already.
ApiSecondStep(entry, acc) ==
    IF acc.raised THEN acc
    ELSE IF ~entry.dict THEN [acc EXCEPT !.raised = TRUE]
    ELSE IF /\ entry.type = "blob"
            /\ ~Contains(entry.path, <<"/">>)
            /\ Lower(entry.path) \in KEY_FILES
            /\ ~DictHas(acc.key_files, entry.path)
         THEN [acc EXCEPT !.key_files = DictPut(@, entry.path, <<>>)]
         ELSE acc

\* The second loop over the entries lo..hi, in order.
RECURSIVE ApiSecondPass(_, _, _, _)
ApiSecondPass(tree, lo, hi, acc) ==
    IF lo > hi THEN acc
    ELSE IF lo = hi THEN ApiSecondStep(tree[lo], acc)
    ELSE LET mid  == (lo + hi) \div 2
             left == ApiSecondPass(tree, lo, mid, acc)
         IN  IF left.raised THEN left
             ELSE ApiSecondPass(tree, mid + 1, hi, left)

\* _process_api_tree
process_api_tree(tree, ft, kf) ==
    LET first == ApiFirstPass(tree, 1, Len(tree),
                     [file_tree |-> ft, key_files |-> kf, raised |-> FALSE])
    IN  IF first.raised THEN first
        ELSE ApiSecondPass(tree, 1, Len(tree), first)

(***************************************************************************)
(* Blueprint assembly.                                                     *)
(***************************************************************************)

\* a < b for Python strings: by code point, a proper prefix first.
RECURSIVE StrLess(_, _)
StrLess(a, b) ==
    IF b = <<>> THEN FALSE
    ELSE IF a = <<>> THEN TRUE
    ELSE IF a[1] # b[1] THEN Code(a[1]) < Code(b[1])
    ELSE StrLess(Tail(a), Tail(b))

\* sorted(S) for a set of strings
RECURSIVE SortedSet(_)
SortedSet(S) ==
    IF S = {} THEN <<>>
    ELSE LET m == CHOOSE x \in S : \A y \in S \ {x} : StrLess(x, y)
         IN  <<m>> \o SortedSet(S \ {m})

\* Faulty assemblies of the file list, for comparison: one that does not test
\* the cleaned paths, and one that keeps the discovery order and the repeats.
CleanTreeUnfiltered(ft) ==
    SortedSet({clean_path(ft[i]) : i \in DOMAIN ft})

RECURSIVE CleanTreeUnsorted(_)
CleanTreeUnsorted(ft) ==
    IF ft = <<>> THEN <<>>
    ELSE (IF clean_path(ft[1]) # <<>> /\ is_valid_path(clean_path(ft[1]))
          THEN <<clean_path(ft[1])>> ELSE <<>>) \o CleanTreeUnsorted(Tail(ft))

\* sorted(set(_clean_path(p) for p in file_tree if ...))
CleanTree(ft) ==
    SortedSet({clean_path(ft[i]) : i \in
                  {j \in DOMAIN ft : clean_path(ft[j]) # <<>>
                                      /\ is_valid_path(clean_path(ft[j]))}})

\* The condition of the valid_key_files comprehension.
HasVerifiedContent(info) ==
    info.content # <<>> /\ is_valid_content(info.content)

\* The condition of the errored_files comprehension.
HasFailed(info) ==
    info.content = <<>> \/ ~is_valid_content(info.content)

\* valid_key_files: a dict keyed by the cleaned path, built in the order of
\* key_files; a later entry with the same cleaned path replaces the value.
RECURSIVE ValidKeyFiles(_, _, _)
ValidKeyFiles(kf, k, acc) ==
    IF k > Len(kf) THEN acc
    ELSE IF HasVerifiedContent(kf[k])
    THEN ValidKeyFiles(kf, k + 1,
             LET key == clean_path(kf[k].key)
                 val == [key |-> key, path |-> clean_path(kf[k].path),
                         content |-> Take(kf[k].content, BLUEPRINT_CONTENT_CAP)]
             IN  IF DictHas(acc, key)
                 THEN [i \in DOMAIN acc |-> IF acc[i].key = key THEN val ELSE acc[i]]
                 ELSE Append(acc, val))
    ELSE ValidKeyFiles(kf, k + 1, acc)

\* errored_files
RECURSIVE ErroredFiles(_, _)
ErroredFiles(kf, k) ==
    IF k > Len(kf) THEN <<>>
    ELSE (IF HasFailed(kf[k]) THEN <<clean_path(kf[k].key)>> ELSE <<>>)
             \o ErroredFiles(kf, k + 1)

RECURSIVE SelectTargetDir(_)
SelectTargetDir(paths) ==
    IF paths = <<>> THEN <<>>
    ELSE (IF is_in_target_dir(paths[1]) THEN <<paths[1]>> ELSE <<>>)
             \o SelectTargetDir(Tail(paths))

\* _build_blueprint.  has_errors tells whether "errors" holds files_not_found;
\* has_debug and debug are set by crawl.
build_blueprint(kf, ft, br, vis) ==
    LET valid   == ValidKeyFiles(kf, 1, <<>>)
        errored == ErroredFiles(kf, 1)
        tree    == CleanTree(ft)
        target  == SelectTargetDir(tree)
    IN  [branch                 |-> br,
         file_tree              |-> tree,
         target_directory_files |-> target,
         key_files              |-> valid,
         has_errors             |-> errored # <<>>,
         files_not_found        |-> errored,
         stats |-> [total_files_in_tree          |-> Len(tree),
                    files_in_target_dirs         |-> Len(target),
                    total_key_files_found        |-> Len(kf),
                    total_key_files_with_content |-> Len(valid),
                    files_failed                 |-> Len(errored),
                    directories_crawled          |-> Cardinality(vis)],
         has_debug |-> FALSE,
         debug     |-> <<>>]

(***************************************************************************)
(* The bounds of the model.                                                *)
(***************************************************************************)

\* Failed raw-content exchanges per crawl.
MaxFaults == 5

\* Key-file candidates of the wide tree, and the failed exchanges of its crawl.
NumWide == 9

MaxWideFaults == 0

\* The sizes of the trees around the key-file cap.
CapBelow == 3

CapAbove == 1

\* The number of tokens the paths given to the pure helpers are built from.
MaxTokens == 4

\* How far below and above each cap the lengths of the raw bodies reach.
ContentMargin == 1


(***************************************************************************)
(* String constants of the program.                                        *)
(***************************************************************************)

STR_TREE == <<"/", "t", "r", "e", "e", "/">>

STR_HTTP == <<"h", "t", "t", "p">>

STR_DIRECTORY == <<"d", "i", "r", "e", "c", "t", "o", "r", "y">>

STR_DIRECTORY_CAP == <<"D", "i", "r", "e", "c", "t", "o", "r", "y">>

STR_FILE == <<"f", "i", "l", "e">>

STR_GITHUB_COM == <<"g", "i", "t", "h", "u", "b", ".", "c", "o", "m">>

GITHUB_ROOT == <<"h", "t", "t", "p", "s", ":", "/", "/", "g", "i", "t", "h", "u", "b", ".", "c", "o", "m", "/">>


(***************************************************************************)
(* The remote repositories the sessions are run against.                   *)
(***************************************************************************)

\* The repository URL given to the session, already normalised.

REPO_URL == <<"h", "t", "t", "p", "s", ":", "/", "/", "g", "i", "t", "h", "u", "b", ".", "c", "o", "m", "/", "o", "/", "r">>

RELEASE == <<"r", "e", "l", "e", "a", "s", "e">>


\* The branch argument of the session: None (<<>>) or a pinned branch that is
\* no candidate.  A pinned candidate branch gives the runs of a probed one.
ExplicitBranches(w) == IF w = "wide" THEN {<<>>} ELSE {<<>>, RELEASE}

\* HAS_AIOHTTP: the client is installed, or is not.
ClientInstalled(w) == IF w = "wide" THEN {TRUE} ELSE BOOLEAN

Blob(p) == [dict |-> TRUE, path |-> p, type |-> "blob"]

Dir(p) == [dict |-> TRUE, path |-> p, type |-> "tree"]

\* An element of the "tree" list that is no JSON object.
NonDict == [dict |-> FALSE, path |-> <<>>, type |-> ""]

\* Scenario A of the specification.
TreeScenarioA ==
    << Blob(<<"s", "r", "c", "/", "a", "p", "p", ".", "t", "s">>),
       Blob(<<"R", "E", "A", "D", "M", "E", ".", "m", "d">>) >>

\* A directory, a keyword file, an invalid path and a file listed twice.
TreeMixed ==
    << Dir(<<"c", "o", "n", "f", "i", "g">>),
       Blob(<<"c", "o", "n", "f", "i", "g", "/", "a", "u", "t", "h", ".", "t", "s">>),
       Blob(<<"a", ";", "b">>),
       Blob(<<"d", "o", "c", "s", "/", "g", "u", "i", "d", "e", ".", "t", "x", "t">>),
       Blob(<<"d", "o", "c", "s", "/", "g", "u", "i", "d", "e", ".", "t", "x", "t">>) >>

\* Names with UI noise: repeated noise prefixes and a noise-only name.
TreeNoise ==
    << Blob(<<"F", "o", "o", "t", "e", "r", "F", "o", "o", "t", "e", "r", "F", "o", "o", "t", "e", "r", "c", "o", "n", "f", "i", "g">>),
       Blob(<<"c", "o", "n", "f", "i", "g">>),
       Blob(<<"a", "c", "t", "i", "o", "n", "s">>),
       Blob(<<"F", "o", "o", "t", "e", "r", "F", "o", "o", "t", "e", "r", "F", "o", "o", "t", "e", "r", "F", "o", "o", "t", "e", "r">>),
       Blob(<<"F", "o", "o", "t", "e", "r", "F", "o", "o", "t", "e", "r", "F", "o", "o", "t", "e", "r", "D", "o", "c", "s", " ", "a", "u", "t", "h", "-", "c", "o", "n", "f", "i", "g", "u", "r", "a", "t", "i", "o", "n", "-", "n", "o", "t", "e", "s", ".", "m", "d">>),
       Blob(<<"F", "o", "o", "t", "e", "r", "F", "o", "o", "t", "e", "r", "F", "o", "o", "t", "e", "r", "F", "o", "o", "t", "e", "r", "F", "o", "o", "t", "e", "r", "D", "o", "c", "s", " ", "a", "u", "t", "h", "-", "c", "o", "n", "f", "i", "g", "u", "r", "a", "t", "i", "o", "n", "-", "n", "o", "t", "e", "s", ".", "m", "d">>) >>

\* A payload whose tree list holds a value that is no object.
TreeMalformed ==
    << Blob(<<"R", "E", "A", "D", "M", "E", ".", "m", "d">>),
       NonDict >>

STR_NOISY_NOTES == <<"F", "o", "o", "t", "e", "r", "F", "o", "o", "t", "e", "r", "F", "o", "o", "t", "e", "r", "F", "o", "o", "t", "e", "r", "F", "o", "o", "t", "e", "r", "D", "o", "c", "s", " ", "a", "u", "t", "h", "-", "c", "o", "n", "f", "i", "g", "u", "r", "a", "t", "i", "o", "n", "-", "n", "o", "t", "e", "s", ".", "m", "d">>

STR_SRC_SLASH == <<"s", "r", "c", "/">>

STR_PACKAGE_JSON == <<"p", "a", "c", "k", "a", "g", "e", ".", "j", "s", "o", "n">>

STR_README == <<"R", "E", "A", "D", "M", "E", ".", "m", "d">>


\* The k-th lower-case letter.
Letter(k) == Ascii[Code("a") - 31 + k]

\* n files src/a, src/b, ...: n key-file candidates, then a name under five
\* noise prefixes that two cleanings turn into prose.
WideTree(n) ==
    [k \in 1..n |-> Blob(STR_SRC_SLASH \o <<Letter(k)>>)] \o <<Blob(STR_NOISY_NOTES)>>

\* n files under src with two-letter names, then two well-known root files.
CapTree(n) ==
    [k \in 1..n |->
        Blob(STR_SRC_SLASH \o <<Letter(1 + (k \div 26)), Letter(1 + (k % 26))>>)]
        \o <<Blob(STR_PACKAGE_JSON), Blob(STR_README)>>


ApiTrees(w) ==
    CASE w = "small" -> {TreeScenarioA, TreeMixed, TreeNoise, TreeMalformed}
      [] w = "wide"  -> {WideTree(NumWide)}
      [] w = "cap"   -> {CapTree(n) : n \in (MAX_KEY_FILES - CapBelow)..(MAX_KEY_FILES + CapAbove)}

\* The failed raw-content exchanges one crawl may meet.
FaultBudget(w) == IF w = "wide" THEN MaxWideFaults ELSE MaxFaults

BODY_CODE == <<"x", " ", "=", " ", "1">>

BODY_HTML_404 == <<"<", "h", "t", "m", "l", ">", "<", "b", "o", "d", "y", ">", "4", "0", "4", " ", "N", "o", "t", " ", "F", "o", "u", "n", "d", "<", "/", "b", "o", "d", "y", ">", "<", "/", "h", "t", "m", "l", ">">>

BODY_BLANK == <<" ", " ", "\n">>


\* The bodies the raw-content endpoint may send with status 200.
Bodies == {BODY_CODE, BODY_HTML_404, BODY_BLANK, <<>>}

Entry(name, link, item_type) == [name |-> name, link |-> link, item_type |-> item_type]

NoExtract == [shape |-> "none", entries |-> <<>>]

Dicts(entries) == [shape |-> "dicts", entries |-> entries]

Nested(entries) == [shape |-> "nested", entries |-> entries]

Page(primary, alt, markdown, cleaned_html, html) ==
    [primary |-> primary, alt |-> alt, markdown |-> markdown,
     cleaned_html |-> cleaned_html, html |-> html]

HTML_EMPTY_MAIN == <<"<", "m", "a", "i", "n", ">", "<", "/", "m", "a", "i", "n", ">">>

HTML_BLANK == <<"<", "h", "t", "m", "l", ">", "<", "m", "a", "i", "n", ">", "<", "/", "m", "a", "i", "n", ">", "<", "/", "h", "t", "m", "l", ">">>

HTML_DIV == <<"<", "d", "i", "v", ">">>


\* A URL the site has no listing for renders to a page without entries.
BlankPage == Page(NoExtract, NoExtract, <<>>, HTML_EMPTY_MAIN, HTML_BLANK)

\* A repository on main whose listings answer the primary query; src links back to itself, lib is a file and a directory, and src/core answers the alternate query and has a link in its markdown.
SiteAlpha ==
    (<<"h", "t", "t", "p", "s", ":", "/", "/", "g", "i", "t", "h", "u", "b", ".", "c", "o", "m", "/", "o", "/", "r", "/", "t", "r", "e", "e", "/", "m", "a", "i", "n">> :>
      Page(Dicts(<< Entry(<<"s", "r", "c">>,
              <<"/", "o", "/", "r", "/", "t", "r", "e", "e", "/", "m", "a", "i", "n", "/", "s", "r", "c">>,
              <<"D", "i", "r", "e", "c", "t", "o", "r", "y">>),
        Entry(<<"S", "k", "i", "p", " ", "t", "o", " ", "c", "o", "n", "t", "e", "n", "t", "/", "R", "E", "A", "D", "M", "E", ".", "m", "d">>,
              <<"/", "o", "/", "r", "/", "b", "l", "o", "b", "/", "m", "a", "i", "n", "/", "R", "E", "A", "D", "M", "E", ".", "m", "d">>,
              <<"f", "i", "l", "e">>),
        Entry(<<"d", "o", "c", "s">>,
              <<"/", "o", "/", "r", "/", "t", "r", "e", "e", "/", "m", "a", "i", "n", "/", "d", "o", "c", "s">>,
              <<"D", "i", "r", "e", "c", "t", "o", "r", "y">>),
        Entry(<<"l", "i", "b">>,
              <<"/", "o", "/", "r", "/", "b", "l", "o", "b", "/", "m", "a", "i", "n", "/", "l", "i", "b">>,
              <<"f", "i", "l", "e">>),
        Entry(<<"l", "i", "b">>,
              <<"h", "t", "t", "p", "s", ":", "/", "/", "g", "i", "t", "h", "u", "b", ".", "c", "o", "m", "/", "o", "/", "r", "/", "t", "r", "e", "e", "/", "m", "a", "i", "n", "/", "l", "i", "b">>,
              <<"f", "i", "l", "e">>) >>),
           NoExtract,
           <<>>, <<"<", "m", "a", "i", "n", ">">>, <<"<", "h", "t", "m", "l", ">">>))
    @@
    (<<"h", "t", "t", "p", "s", ":", "/", "/", "g", "i", "t", "h", "u", "b", ".", "c", "o", "m", "/", "o", "/", "r", "/", "t", "r", "e", "e", "/", "m", "a", "i", "n", "/", "s", "r", "c">> :>
      Page(Dicts(<< Entry(<<"a", "u", "t", "h", ".", "t", "s">>,
              <<"/", "o", "/", "r", "/", "b", "l", "o", "b", "/", "m", "a", "i", "n", "/", "s", "r", "c", "/", "a", "u", "t", "h", ".", "t", "s">>,
              <<"f", "i", "l", "e">>),
        Entry(<<"u", "t", "i", "l", ".", "t", "s">>,
              <<"/", "o", "/", "r", "/", "b", "l", "o", "b", "/", "m", "a", "i", "n", "/", "s", "r", "c", "/", "u", "t", "i", "l", ".", "t", "s">>,
              <<"f", "i", "l", "e">>),
        Entry(<<"s", "r", "c">>,
              <<"/", "o", "/", "r", "/", "t", "r", "e", "e", "/", "m", "a", "i", "n", "/", "s", "r", "c">>,
              <<"D", "i", "r", "e", "c", "t", "o", "r", "y">>),
        Entry(<<"c", "o", "r", "e">>,
              <<"h", "t", "t", "p", "s", ":", "/", "/", "g", "i", "t", "h", "u", "b", ".", "c", "o", "m", "/", "o", "/", "r", "/", "t", "r", "e", "e", "/", "m", "a", "i", "n", "/", "s", "r", "c", "/", "c", "o", "r", "e">>,
              <<"D", "i", "r", "e", "c", "t", "o", "r", "y">>) >>),
           NoExtract,
           <<>>, <<"<", "m", "a", "i", "n", ">">>, <<"<", "h", "t", "m", "l", ">">>))
    @@
    (<<"h", "t", "t", "p", "s", ":", "/", "/", "g", "i", "t", "h", "u", "b", ".", "c", "o", "m", "/", "o", "/", "r", "/", "t", "r", "e", "e", "/", "m", "a", "i", "n", "/", "s", "r", "c", "/", "c", "o", "r", "e">> :>
      Page([shape |-> "other", entries |-> <<>>],
           Nested(<< Entry(<<"a", "p", "i", ".", "t", "s">>,
              <<"/", "o", "/", "r", "/", "b", "l", "o", "b", "/", "m", "a", "i", "n", "/", "s", "r", "c", "/", "c", "o", "r", "e", "/", "a", "p", "i", ".", "t", "s">>,
              <<"f", "i", "l", "e">>) >>),
           <<"[", "n", "o", "t", "e", "s", ".", "t", "x", "t", "]", "(", "/", "o", "/", "r", "/", "b", "l", "o", "b", "/", "m", "a", "i", "n", "/", "s", "r", "c", "/", "c", "o", "r", "e", "/", "n", "o", "t", "e", "s", ".", "t", "x", "t", ")">>, <<"<", "m", "a", "i", "n", ">">>, <<"<", "h", "t", "m", "l", ">">>))

\* A repository on master whose root answers only the alternate query and whose app directory shows only in the markdown.
SiteBeta ==
    (<<"h", "t", "t", "p", "s", ":", "/", "/", "g", "i", "t", "h", "u", "b", ".", "c", "o", "m", "/", "o", "/", "r", "/", "t", "r", "e", "e", "/", "m", "a", "i", "n">> :>
      Page(NoExtract,
           NoExtract,
           <<>>, <<>>, <<"<", "d", "i", "v", ">">>))
    @@
    (<<"h", "t", "t", "p", "s", ":", "/", "/", "g", "i", "t", "h", "u", "b", ".", "c", "o", "m", "/", "o", "/", "r", "/", "t", "r", "e", "e", "/", "m", "a", "s", "t", "e", "r">> :>
      Page(NoExtract,
           Dicts(<< Entry(<<"R", "E", "A", "D", "M", "E", ".", "m", "d">>,
              <<"/", "o", "/", "r", "/", "b", "l", "o", "b", "/", "m", "a", "s", "t", "e", "r", "/", "R", "E", "A", "D", "M", "E", ".", "m", "d">>,
              <<"f", "i", "l", "e">>),
        Entry(<<"a", "p", "p">>,
              <<"/", "o", "/", "r", "/", "t", "r", "e", "e", "/", "m", "a", "s", "t", "e", "r", "/", "a", "p", "p">>,
              <<"D", "i", "r", "e", "c", "t", "o", "r", "y">>) >>),
           <<>>, <<"<", "m", "a", "i", "n", ">">>, <<"<", "h", "t", "m", "l", ">">>))
    @@
    (<<"h", "t", "t", "p", "s", ":", "/", "/", "g", "i", "t", "h", "u", "b", ".", "c", "o", "m", "/", "o", "/", "r", "/", "t", "r", "e", "e", "/", "m", "a", "s", "t", "e", "r", "/", "a", "p", "p">> :>
      Page(NoExtract,
           NoExtract,
           <<"#", " ", "A", "p", "p", "\n", "[", "r", "o", "u", "t", "e", "s", ".", "t", "s", "]", "(", "/", "o", "/", "r", "/", "b", "l", "o", "b", "/", "m", "a", "s", "t", "e", "r", "/", "a", "p", "p", "/", "r", "o", "u", "t", "e", "s", ".", "t", "s", ")", " ", "[", "#", "t", "o", "p", "]", "(", "#", "t", "o", "p", ")", " ", "[", "x", "]", "(", "o", "t", "h", "e", "r", ")", " ", "[", "m", "o", "d", "e", "l", "s", "]", "(", "/", "o", "/", "r", "/", "t", "r", "e", "e", "/", "m", "a", "s", "t", "e", "r", "/", "a", "p", "p", "/", "m", "o", "d", "e", "l", "s", ")">>, <<"<", "m", "a", "i", "n", ">">>, <<"<", "h", "t", "m", "l", ">">>))

\* A site no listing can be read from.
SiteGamma == <<>>

\* A repository on main with a chain of directories five levels deep below the root: app, api, v1, db, orm.
SiteDelta ==
    (<<"h", "t", "t", "p", "s", ":", "/", "/", "g", "i", "t", "h", "u", "b", ".", "c", "o", "m", "/", "o", "/", "r", "/", "t", "r", "e", "e", "/", "m", "a", "i", "n">> :>
      Page(Dicts(<< Entry(<<"a", "p", "p">>,
              <<"/", "o", "/", "r", "/", "t", "r", "e", "e", "/", "m", "a", "i", "n", "/", "a", "p", "p">>,
              <<"D", "i", "r", "e", "c", "t", "o", "r", "y">>) >>),
           NoExtract,
           <<>>, <<"<", "m", "a", "i", "n", ">">>, <<"<", "h", "t", "m", "l", ">">>))
    @@
    (<<"h", "t", "t", "p", "s", ":", "/", "/", "g", "i", "t", "h", "u", "b", ".", "c", "o", "m", "/", "o", "/", "r", "/", "t", "r", "e", "e", "/", "m", "a", "i", "n", "/", "a", "p", "p">> :>
      Page(Dicts(<< Entry(<<"a", "p", "i">>,
              <<"/", "o", "/", "r", "/", "t", "r", "e", "e", "/", "m", "a", "i", "n", "/", "a", "p", "p", "/", "a", "p", "i">>,
              <<"D", "i", "r", "e", "c", "t", "o", "r", "y">>) >>),
           NoExtract,
           <<>>, <<"<", "m", "a", "i", "n", ">">>, <<"<", "h", "t", "m", "l", ">">>))
    @@
    (<<"h", "t", "t", "p", "s", ":", "/", "/", "g", "i", "t", "h", "u", "b", ".", "c", "o", "m", "/", "o", "/", "r", "/", "t", "r", "e", "e", "/", "m", "a", "i", "n", "/", "a", "p", "p", "/", "a", "p", "i">> :>
      Page(Dicts(<< Entry(<<"v", "1">>,
              <<"/", "o", "/", "r", "/", "t", "r", "e", "e", "/", "m", "a", "i", "n", "/", "a", "p", "p", "/", "a", "p", "i", "/", "v", "1">>,
              <<"D", "i", "r", "e", "c", "t", "o", "r", "y">>) >>),
           NoExtract,
           <<>>, <<"<", "m", "a", "i", "n", ">">>, <<"<", "h", "t", "m", "l", ">">>))
    @@
    (<<"h", "t", "t", "p", "s", ":", "/", "/", "g", "i", "t", "h", "u", "b", ".", "c", "o", "m", "/", "o", "/", "r", "/", "t", "r", "e", "e", "/", "m", "a", "i", "n", "/", "a", "p", "p", "/", "a", "p", "i", "/", "v", "1">> :>
      Page(Dicts(<< Entry(<<"d", "b">>,
              <<"/", "o", "/", "r", "/", "t", "r", "e", "e", "/", "m", "a", "i", "n", "/", "a", "p", "p", "/", "a", "p", "i", "/", "v", "1", "/", "d", "b">>,
              <<"D", "i", "r", "e", "c", "t", "o", "r", "y">>) >>),
           NoExtract,
           <<>>, <<"<", "m", "a", "i", "n", ">">>, <<"<", "h", "t", "m", "l", ">">>))
    @@
    (<<"h", "t", "t", "p", "s", ":", "/", "/", "g", "i", "t", "h", "u", "b", ".", "c", "o", "m", "/", "o", "/", "r", "/", "t", "r", "e", "e", "/", "m", "a", "i", "n", "/", "a", "p", "p", "/", "a", "p", "i", "/", "v", "1", "/", "d", "b">> :>
      Page(Dicts(<< Entry(<<"o", "r", "m">>,
              <<"/", "o", "/", "r", "/", "t", "r", "e", "e", "/", "m", "a", "i", "n", "/", "a", "p", "p", "/", "a", "p", "i", "/", "v", "1", "/", "d", "b", "/", "o", "r", "m">>,
              <<"D", "i", "r", "e", "c", "t", "o", "r", "y">>),
        Entry(<<"s", "c", "h", "e", "m", "a", ".", "p", "y">>,
              <<"/", "o", "/", "r", "/", "b", "l", "o", "b", "/", "m", "a", "i", "n", "/", "a", "p", "p", "/", "a", "p", "i", "/", "v", "1", "/", "d", "b", "/", "s", "c", "h", "e", "m", "a", ".", "p", "y">>,
              <<"f", "i", "l", "e">>) >>),
           NoExtract,
           <<>>, <<"<", "m", "a", "i", "n", ">">>, <<"<", "h", "t", "m", "l", ">">>))
    @@
    (<<"h", "t", "t", "p", "s", ":", "/", "/", "g", "i", "t", "h", "u", "b", ".", "c", "o", "m", "/", "o", "/", "r", "/", "t", "r", "e", "e", "/", "m", "a", "i", "n", "/", "a", "p", "p", "/", "a", "p", "i", "/", "v", "1", "/", "d", "b", "/", "o", "r", "m">> :>
      Page(Dicts(<< Entry(<<"m", "a", "i", "n", ".", "p", "y">>,
              <<"/", "o", "/", "r", "/", "b", "l", "o", "b", "/", "m", "a", "i", "n", "/", "a", "p", "p", "/", "a", "p", "i", "/", "v", "1", "/", "d", "b", "/", "o", "r", "m", "/", "m", "a", "i", "n", ".", "p", "y">>,
              <<"f", "i", "l", "e">>) >>),
           NoExtract,
           <<>>, <<"<", "m", "a", "i", "n", ">">>, <<"<", "h", "t", "m", "l", ">">>))

\* A repository on main whose root has directories, none of them named like a target directory.
SiteEpsilon ==
    (<<"h", "t", "t", "p", "s", ":", "/", "/", "g", "i", "t", "h", "u", "b", ".", "c", "o", "m", "/", "o", "/", "r", "/", "t", "r", "e", "e", "/", "m", "a", "i", "n">> :>
      Page(Dicts(<< Entry(<<"d", "o", "c", "s">>,
              <<"/", "o", "/", "r", "/", "t", "r", "e", "e", "/", "m", "a", "i", "n", "/", "d", "o", "c", "s">>,
              <<"D", "i", "r", "e", "c", "t", "o", "r", "y">>),
        Entry(<<"s", "c", "r", "i", "p", "t", "s">>,
              <<"/", "o", "/", "r", "/", "t", "r", "e", "e", "/", "m", "a", "i", "n", "/", "s", "c", "r", "i", "p", "t", "s">>,
              <<"D", "i", "r", "e", "c", "t", "o", "r", "y">>),
        Entry(<<"p", "a", "c", "k", "a", "g", "e", ".", "j", "s", "o", "n">>,
              <<"/", "o", "/", "r", "/", "b", "l", "o", "b", "/", "m", "a", "i", "n", "/", "p", "a", "c", "k", "a", "g", "e", ".", "j", "s", "o", "n">>,
              <<"f", "i", "l", "e">>) >>),
           NoExtract,
           <<>>, <<"<", "m", "a", "i", "n", ">">>, <<"<", "h", "t", "m", "l", ">">>))
    @@
    (<<"h", "t", "t", "p", "s", ":", "/", "/", "g", "i", "t", "h", "u", "b", ".", "c", "o", "m", "/", "o", "/", "r", "/", "t", "r", "e", "e", "/", "m", "a", "i", "n", "/", "d", "o", "c", "s">> :>
      Page(Dicts(<< Entry(<<"g", "u", "i", "d", "e", ".", "m", "d">>,
              <<"/", "o", "/", "r", "/", "b", "l", "o", "b", "/", "m", "a", "i", "n", "/", "d", "o", "c", "s", "/", "g", "u", "i", "d", "e", ".", "m", "d">>,
              <<"f", "i", "l", "e">>) >>),
           NoExtract,
           <<>>, <<"<", "m", "a", "i", "n", ">">>, <<"<", "h", "t", "m", "l", ">">>))
    @@
    (<<"h", "t", "t", "p", "s", ":", "/", "/", "g", "i", "t", "h", "u", "b", ".", "c", "o", "m", "/", "o", "/", "r", "/", "t", "r", "e", "e", "/", "m", "a", "i", "n", "/", "s", "c", "r", "i", "p", "t", "s">> :>
      Page(Dicts(<< Entry(<<"m", "a", "i", "n", ".", "p", "y">>,
              <<"/", "o", "/", "r", "/", "b", "l", "o", "b", "/", "m", "a", "i", "n", "/", "s", "c", "r", "i", "p", "t", "s", "/", "m", "a", "i", "n", ".", "p", "y">>,
              <<"f", "i", "l", "e">>) >>),
           NoExtract,
           <<>>, <<"<", "m", "a", "i", "n", ">">>, <<"<", "h", "t", "m", "l", ">">>))

NoSite == <<>>

Sites(w) ==
    IF w = "wide" THEN {SiteGamma}
    ELSE {SiteAlpha, SiteBeta, SiteGamma, SiteDelta, SiteEpsilon}

(***************************************************************************)
(* The crawl session.                                                      *)
(***************************************************************************)

VARIABLES
    world,            \* which remote repositories the session may meet
    has_aiohttp,      \* HAS_AIOHTTP
    explicit_branch,  \* self._explicit_branch, <<>> for None
    branch,           \* self.branch
    pc,               \* where the coroutine crawl() stands
    probe_i,          \* _detect_branch: index of the candidate being probed
    probes,           \* the probes answered so far: candidate and whether it answered 200
    api_tree,         \* crawl: the local api_tree
    tree_resp,        \* what the tree endpoint answered, NoResp before it did
    tier,             \* the discovery tier crawl() took: "api", "web" or "none"
    file_tree,        \* self.file_tree
    key_files,        \* self.key_files, in insertion order
    visited,          \* self._visited
    debug_html,       \* self._debug_html
    sem_value,        \* self._semaphore: free permits
    sem_waiters,      \* self._semaphore: tasks waiting, first come first
    tasks,            \* the _fetch_single_content tasks of the gather batch
    faults_left,      \* failed raw-content exchanges the remote may still give
    site,             \* the pages the rendering backend sees
    ext,              \* the running _extract_listing call
    root,             \* _crawl_via_web: entries, loop index, alternate index
    stack,            \* the _walk_web_directory frames, innermost last
    renders,          \* every URL handed to crawler.arun, in order
    blueprint,        \* what crawl() returned
    pure              \* the pure helper being applied, its input and its results

vars == <<world, has_aiohttp, explicit_branch, branch, pc, probe_i, probes,
         api_tree,
          tree_resp, tier, file_tree, key_files, visited, debug_html, sem_value,
          sem_waiters, tasks, faults_left, site, ext, root, stack, renders,
          blueprint, pure>>

sessionVars == <<world, has_aiohttp, explicit_branch, pure>>

apiVars == <<api_tree, tree_resp, tier>>

fetchVars == <<sem_waiters, tasks, faults_left>>

webVars == <<site, ext, root, stack, renders>>

NoBlueprint == [made |-> FALSE]

\* What the tree endpoint answered, without the entries: their number.
Answer(resp) ==
    [kind |-> resp.kind, status |-> resp.status, json |-> resp.json,
     entries |-> Len(resp.tree)]

NoResp == [kind |-> "none", status |-> 0, json |-> "", entries |-> 0]

NoPure == [fn |-> "", stage |-> 0, input |-> <<>>, once |-> <<>>, twice |-> <<>>]

NoExt == [url |-> <<>>, ret |-> "", entries |-> <<>>, first |-> [success |-> FALSE]]

NoRoot == [entries |-> <<>>, i |-> 0, alt |-> 0]

\* GitHubSpider.__init__, for a session of world w.
InitSession(w) ==
    /\ world = w
    /\ has_aiohttp \in ClientInstalled(w)
    /\ explicit_branch \in ExplicitBranches(w)
    /\ branch = (IF explicit_branch # <<>> THEN explicit_branch ELSE MAIN)
    /\ pc = "start"
    /\ probe_i = 0
    /\ probes = <<>>
    /\ api_tree = NoTree
    /\ tree_resp = NoResp
    /\ tier = "none"
    /\ file_tree = <<>>
    /\ key_files = <<>>
    /\ visited = {}
    /\ debug_html = <<>>
    /\ sem_value = CONCURRENCY_LIMIT
    /\ sem_waiters = <<>>
    /\ tasks = <<>>
    /\ faults_left = FaultBudget(w)
    /\ site = NoSite
    /\ ext = NoExt
    /\ root = NoRoot
    /\ stack = <<>>
    /\ renders = <<>>
    /\ blueprint = NoBlueprint
    /\ pure = NoPure

\* crawl() up to its first suspension: the branch probe, the tree request, or,
\* without an HTTP client, straight to the rendered tier (_detect_branch gives
\* "main" and _fetch_tree_via_api gives None without a request).
Start ==
    /\ pc = "start"
    /\ IF explicit_branch = <<>> /\ has_aiohttp
       THEN pc' = "probe" /\ probe_i' = 1 /\ UNCHANGED <<branch, tier>>
       ELSE /\ branch' = (IF explicit_branch = <<>> THEN MAIN ELSE branch)
            /\ pc' = (IF has_aiohttp THEN "tree" ELSE "web")
            /\ tier' = (IF has_aiohttp THEN tier ELSE "web")
            /\ UNCHANGED probe_i
    /\ UNCHANGED probes
    /\ UNCHANGED <<sessionVars, fetchVars, webVars, api_tree, tree_resp, file_tree,
                   key_files, visited, debug_html, sem_value, blueprint>>

\* _detect_branch: the HEAD probe of candidate probe_i answers.
ProbeResponses == {RespStatus(200), RespStatus(404), RespRaise}

\* The record of one probe: the candidate asked for and whether the answer had
\* status 200.
Probed(i, resp) ==
    [branch |-> CANDIDATE_BRANCHES[i],
     ok |-> resp.kind = "response" /\ resp.status = 200]

\* A resolver that takes the first candidate that answers at all.
ProbeReturnAnyAnswer ==
    /\ pc = "probe"
    /\ \E resp \in ProbeResponses :
          /\ probes' = Append(probes, Probed(probe_i, resp))
          /\ IF resp.kind = "response"
             THEN branch' = CANDIDATE_BRANCHES[probe_i] /\ pc' = "tree"
                     /\ UNCHANGED probe_i
             ELSE IF probe_i < Len(CANDIDATE_BRANCHES)
             THEN probe_i' = probe_i + 1 /\ UNCHANGED <<branch, pc>>
             ELSE branch' = MAIN /\ pc' = "tree" /\ UNCHANGED probe_i
    /\ UNCHANGED <<sessionVars, fetchVars, webVars, apiVars, file_tree, key_files,
                   visited, debug_html, sem_value, blueprint>>

\* _detect_branch: the probe of candidate probe_i answers; status 200 ends the
\* loop with that candidate, anything else moves on, and after the last
\* candidate the answer is "main".
ProbeReturn ==
    /\ pc = "probe"
    /\ \E resp \in ProbeResponses :
          /\ probes' = Append(probes, Probed(probe_i, resp))
          /\ IF resp.kind = "response" /\ resp.status = 200
             THEN branch' = CANDIDATE_BRANCHES[probe_i] /\ pc' = "tree"
                     /\ UNCHANGED probe_i
             ELSE IF probe_i < Len(CANDIDATE_BRANCHES)
             THEN probe_i' = probe_i + 1 /\ UNCHANGED <<branch, pc>>
             ELSE branch' = MAIN /\ pc' = "tree" /\ UNCHANGED probe_i
    /\ UNCHANGED <<sessionVars, fetchVars, webVars, apiVars, file_tree, key_files,
                   visited, debug_html, sem_value, blueprint>>

\* What the tree endpoint may answer.
TreeResp(j, t) == [kind |-> "response", status |-> 200, json |-> j, tree |-> t]

TreeResponses(w) ==
    {[kind |-> "raise", status |-> 0, json |-> "", tree |-> <<>>],
     [kind |-> "response", status |-> 403, json |-> "", tree |-> <<>>],
     TreeResp("invalid", <<>>), TreeResp("not_object", <<>>),
     TreeResp("no_tree", <<>>)}
       \cup {TreeResp("object", t) : t \in ApiTrees(w)}

\* crawl(): the tree request answers.  A usable tree is processed at once
\* (_process_api_tree does not suspend); otherwise the rendered tier takes over.
TreeReturn ==
    /\ pc = "tree"
    /\ \E resp \in TreeResponses(world) :
          LET t == fetch_tree_via_api(has_aiohttp, resp)
              r == process_api_tree(t.tree, file_tree, key_files)
          IN  /\ api_tree' = t
              /\ tree_resp' = Answer(resp)
              /\ tier' = (IF TreeUsable(t) THEN "api" ELSE "web")
              /\ IF ~TreeUsable(t)
                 THEN pc' = "web" /\ UNCHANGED <<file_tree, key_files>>
                 ELSE /\ pc' = (IF r.raised THEN "raised" ELSE "discovered")
                      /\ file_tree' = r.file_tree
                      /\ key_files' = r.key_files
    /\ UNCHANGED <<sessionVars, fetchVars, webVars, branch, probe_i, probes, visited,
                   debug_html, sem_value, blueprint>>

(***************************************************************************)
(* The content fetch: one task per key file, all behind the semaphore.     *)
(***************************************************************************)

\* A faulty limiter, for comparison: it never makes a task wait.
NeverLocked(value, waiters) == FALSE

\* asyncio.Semaphore.locked(): "async with self._semaphore" waits when it holds.
SemLocked(value, waiters) == value = 0 \/ waiters # <<>>

\* A task of the batch.  st: "waiting" for a permit, "woken" by a release,
\* "inflight" with a request out on branch number pos of its list, or "done".
\* requested tells whether a request goes out for its path, log lists the
\* branches it has requested so far, got whether each answered request returned
\* validated content, only404 whether every answer so far was the HTML error
\* page sent with status 200.
NewTask(path) ==
    [path |-> path, requested |-> Requested(path), st |-> "done", pos |-> 0,
     result |-> <<>>, log |-> <<>>, got |-> <<>>, only404 |-> TRUE]

\* The request for branch number p of the task's list goes out.
Request(t, b, p) ==
    [t EXCEPT !.st = "inflight", !.pos = p, !.log = Append(@, FetchBranches(b)[p])]

\* gather() starts the tasks in order; each runs _fetch_single_content up to its
\* first suspension: done at once for a path that is not fetchable, queued
\* behind the semaphore, or in flight on the session branch with a permit; a
\* path no request goes out for runs through its branches without suspending
\* and gives the permit back at once.
RECURSIVE LaunchTasks(_, _, _, _)
LaunchTasks(paths, b, k, acc) ==
    IF k > Len(paths) THEN acc
    ELSE LET t == NewTask(paths[k])
         IN  LaunchTasks(paths, b, k + 1,
               IF ~Fetchable(paths[k])
               THEN [acc EXCEPT !.tasks = Append(@, t)]
               ELSE IF ~SemLocked(acc.value, acc.waiters)
               THEN IF t.requested
                    THEN [acc EXCEPT !.value = @ - 1,
                                     !.tasks = Append(@, Request(t, b, 1))]
                    ELSE [acc EXCEPT !.tasks = Append(@, t)]
               ELSE [acc EXCEPT !.waiters = Append(@, k),
                                !.tasks = Append(@, [t EXCEPT !.st = "waiting"])])

Keys(kf) == [i \in DOMAIN kf |-> kf[i].key]

\* crawl() step 3 and _fetch_all_key_file_contents up to the gather: nothing to
\* do without key files or without an HTTP client.
FetchAll ==
    /\ pc = "discovered"
    /\ IF key_files = <<>> \/ ~has_aiohttp
       THEN pc' = "assemble" /\ UNCHANGED <<sem_value, sem_waiters, tasks>>
       ELSE LET l == LaunchTasks(Keys(key_files), branch, 1,
                        [value |-> sem_value, waiters |-> sem_waiters,
                         tasks |-> <<>>])
            IN  /\ pc' = "gather"
                /\ sem_value' = l.value
                /\ sem_waiters' = l.waiters
                /\ tasks' = l.tasks
    /\ UNCHANGED <<sessionVars, webVars, branch, probe_i, probes, apiVars, file_tree,
                   key_files, visited, debug_html, faults_left, blueprint>>

\* What the raw-content endpoint may answer.
RawResponses ==
    {RespOk(b) : b \in Bodies} \cup {RespStatus(404), RespRaise}

\* A faulty release, for comparison: the permit is returned and no waiter is
\* woken.
ReleaseWakesNobody(waiters) == {}

\* Semaphore.release(): the permit is returned and the first waiter is woken.
ReleaseWakes(waiters) == IF waiters = <<>> THEN {} ELSE {waiters[1]}

\* _fetch_single_content: the request of task i answers.  Validated content
\* ends the task; otherwise the next branch of its list is requested, and after
\* the last one the task ends with "".  The permit is held from the first
\* request to the end of the task.
\* A faulty loop, for comparison: without the "if content: return" the task
\* goes on to the last branch of its list.
EndsAfterLastBranch(t, content) == t.pos = Len(FetchBranches(branch))

TaskEnds(t, content) ==
    content # <<>> \/ t.pos = Len(FetchBranches(branch))

\* What _fetch_raw_content can return for them: the distinct outcomes of one
\* request.
FetchedContents == {fetch_raw_content(resp) : resp \in RawResponses}

\* The same outcomes, each with the mark of the answer that is the HTML error
\* page sent with status 200.
RawOutcomes ==
    {[content |-> fetch_raw_content(resp), html404 |-> resp = RespOk(BODY_HTML_404)] :
        resp \in RawResponses}

RawReturn(i) ==
    /\ pc = "gather"
    /\ tasks[i].st = "inflight"
    /\ \E out \in RawOutcomes :
          LET content == out.content
              t       == [tasks[i] EXCEPT !.only404 = @ /\ out.html404]
              woken   == ReleaseWakes(sem_waiters)
          IN  /\ content = <<>> => faults_left > 0
              /\ faults_left' = (IF content = <<>> THEN faults_left - 1
                                                    ELSE faults_left)
              /\ IF TaskEnds(t, content)
                 THEN /\ sem_value' = sem_value + 1
                      /\ sem_waiters' = (IF sem_waiters = <<>> THEN <<>>
                                                               ELSE Tail(sem_waiters))
                      /\ tasks' = [j \in DOMAIN tasks |->
                                     IF j = i
                                     THEN [t EXCEPT !.st = "done", !.result = content,
                                                    !.got = Append(@, content # <<>>)]
                                     ELSE IF j \in woken
                                     THEN [tasks[j] EXCEPT !.st = "woken"]
                                     ELSE tasks[j]]
                 ELSE /\ tasks' = [tasks EXCEPT ![i] =
                                     Request([t EXCEPT !.got = Append(@, content # <<>>)],
                                             branch, t.pos + 1)]
                      /\ UNCHANGED <<sem_value, sem_waiters>>
    /\ UNCHANGED <<sessionVars, webVars, branch, pc, probe_i, probes, apiVars, file_tree,
                   key_files, visited, debug_html, blueprint>>

\* A woken task takes its permit and sends its first request; a task no
\* request goes out for ends at once and passes the permit on.
Resume(i) ==
    /\ pc = "gather"
    /\ tasks[i].st = "woken"
    /\ IF tasks[i].requested
       THEN /\ sem_value' = sem_value - 1
            /\ tasks' = [tasks EXCEPT ![i] = Request(tasks[i], branch, 1)]
            /\ UNCHANGED sem_waiters
       ELSE /\ sem_value' = (sem_value - 1) + 1
            /\ sem_waiters' = (IF sem_waiters = <<>> THEN <<>>
                                                     ELSE Tail(sem_waiters))
            /\ tasks' = [j \in DOMAIN tasks |->
                           IF j = i THEN [tasks[j] EXCEPT !.st = "done"]
                           ELSE IF j \in ReleaseWakes(sem_waiters)
                           THEN [tasks[j] EXCEPT !.st = "woken"]
                           ELSE tasks[j]]
    /\ UNCHANGED <<sessionVars, webVars, branch, pc, probe_i, probes, apiVars, file_tree,
                   key_files, visited, debug_html, faults_left, blueprint>>

\* A faulty batch, for comparison: one empty result discards all the others
\* (what a gather that lets a failure through would come to).
StoreAllOrNone(kf, ts, k) ==
    IF \E i \in DOMAIN ts : ts[i].result = <<>> THEN kf
    ELSE [i \in DOMAIN kf |->
             IF \E j \in DOMAIN ts : ts[j].path = kf[i].key
             THEN [kf[i] EXCEPT !.content =
                      ts[CHOOSE j \in DOMAIN ts : ts[j].path = kf[i].key].result]
             ELSE kf[i]]

\* The loop after the gather: a non-empty result becomes the content of its
\* key file.
RECURSIVE StoreResults(_, _, _)
StoreResults(kf, ts, k) ==
    IF k > Len(ts) THEN kf
    ELSE StoreResults(
             IF ts[k].result # <<>>
             THEN [i \in DOMAIN kf |->
                      IF kf[i].key = ts[k].path
                      THEN [kf[i] EXCEPT !.content = ts[k].result] ELSE kf[i]]
             ELSE kf,
             ts, k + 1)

\* A faulty wait, for comparison: it resumes when the first task has ended.
AnyDone(ts) == \E i \in DOMAIN ts : ts[i].st = "done"

\* "await asyncio.gather(...)" resumes when every task of the batch has ended.
BatchDone(ts) == \A i \in DOMAIN ts : ts[i].st = "done"

GatherReturn ==
    /\ pc = "gather"
    /\ BatchDone(tasks)
    /\ key_files' = StoreResults(key_files, tasks, 1)
    /\ pc' = "assemble"
    /\ UNCHANGED <<sessionVars, fetchVars, webVars, branch, probe_i, probes, apiVars,
                   file_tree, visited, debug_html, sem_value, blueprint>>

\* A step 4 that never attaches the excerpt.
AttachDebugNever(bp, html) == bp

\* A step 4 that attaches the excerpt whenever a page left unparsed markup.
AttachDebugAlways(bp, html) ==
    IF html # <<>>
    THEN [bp EXCEPT !.has_debug = TRUE, !.debug = Take(html, DEBUG_HTML_CAP)]
    ELSE bp

\* crawl() step 4: the blueprint, with the debug excerpt when no key file was
\* found and a page left unparsed markup.
AttachDebug(bp, html) ==
    IF bp.stats.total_key_files_found = 0 /\ html # <<>>
    THEN [bp EXCEPT !.has_debug = TRUE, !.debug = Take(html, DEBUG_HTML_CAP)]
    ELSE bp

Assemble ==
    /\ pc = "assemble"
    /\ blueprint' = [made |-> TRUE,
                     bp |-> AttachDebug(
                               build_blueprint(key_files, file_tree, branch, visited),
                               debug_html)]
    /\ pc' = "done"
    /\ UNCHANGED <<sessionVars, fetchVars, webVars, branch, probe_i, probes, apiVars,
                   file_tree, key_files, visited, debug_html, sem_value>>

(***************************************************************************)
(* The rendered tier: _crawl_via_web, _walk_web_directory, _extract_listing. *)
(***************************************************************************)

\* f"{self.repo_url}/tree/{branch}"
TreeUrl(b) == REPO_URL \o STR_TREE \o b

\* str.lstrip("/")
LStripSlash(s) ==
    LET keep == {i \in 1..Len(s) : s[i] # "/"}
    IN  IF keep = {} THEN <<>> ELSE Drop(s, SetMin(keep) - 1)

\* _resolve_link; urljoin of the site root and a plain relative path appends it.
resolve_link(href) ==
    IF StartsWith(href, STR_HTTP) THEN href ELSE GITHUB_ROOT \o LStripSlash(href)

\* is_dir of both entry loops
IsDirEntry(e) ==
    Contains(Lower(e.item_type), STR_DIRECTORY) \/ Contains(e.link, STR_TREE)

\* The matches of \[([^\]]+)\]\(([^)]+)\) in md from position from on, left to
\* right and not overlapping: "[", the text up to the next "]", "(", the text up
\* to the next ")", both texts non-empty.
RECURSIVE MarkdownLinks(_, _)
MarkdownLinks(md, from) ==
    LET opens == {i \in from..Len(md) :
                     /\ md[i] = "["
                     /\ \E j \in (i + 2)..Len(md) :
                           /\ md[j] = "]"
                           /\ \A x \in (i + 1)..(j - 1) : md[x] # "]"
                           /\ j + 1 <= Len(md) /\ md[j + 1] = "("
                           /\ \E k \in (j + 3)..Len(md) :
                                 /\ md[k] = ")"
                                 /\ \A x \in (j + 2)..(k - 1) : md[x] # ")"}
    IN  IF opens = {} THEN <<>>
        ELSE LET i == SetMin(opens)
                 j == SetMin({x \in (i + 1)..Len(md) : md[x] = "]"})
                 k == SetMin({x \in (j + 2)..Len(md) : md[x] = ")"})
             IN  <<[name |-> SubSeq(md, i + 1, j - 1),
                    href |-> SubSeq(md, j + 2, k - 1)]>>
                     \o MarkdownLinks(md, k + 1)

\* The filter and the entry built in the loop of _parse_markdown_listing.
RECURSIVE MarkdownEntries(_)
MarkdownEntries(links) ==
    IF links = <<>> THEN <<>>
    ELSE LET name == Strip(links[1].name)
             href == Strip(links[1].href)
             keep == /\ name # <<>>
                     /\ ~StartsWith(name, <<"#">>)
                     /\ is_valid_path(name)
                     /\ (Contains(href, STR_GITHUB_COM) \/ StartsWith(href, <<"/">>))
         IN  (IF keep
              THEN <<[name |-> name, link |-> href,
                      item_type |-> IF Contains(href, STR_TREE)
                                    THEN STR_DIRECTORY_CAP ELSE STR_FILE]>>
              ELSE <<>>) \o MarkdownEntries(Tail(links))

\* _parse_markdown_listing
parse_markdown_listing(md) == MarkdownEntries(MarkdownLinks(md, 1))

\* What crawler.arun may come to for a page: the rendered page, an unsuccessful
\* result, or an exception.
RenderOutcomes == {"ok", "unsuccessful", "raise"}

PageOf(s, url) == IF url \in DOMAIN s THEN s[url] ELSE BlankPage

\* The result object of arun(url, schema): schema "primary" is FILE_TREE_SCHEMA,
\* "alt" is FILE_TREE_SCHEMA_ALT.
RenderResult(s, url, schema, outcome) ==
    IF outcome = "ok"
    THEN [success |-> TRUE,
          extracted |-> IF schema = "primary" THEN PageOf(s, url).primary
                                              ELSE PageOf(s, url).alt,
          markdown |-> PageOf(s, url).markdown,
          cleaned_html |-> PageOf(s, url).cleaned_html,
          html |-> PageOf(s, url).html]
    ELSE [success |-> FALSE, extracted |-> NoExtract, markdown |-> <<>>,
          cleaned_html |-> <<>>, html |-> <<>>]

\* The entries read from result.extracted_content: a JSON list of dicts, or the
\* first element of a list whose first element is a list; nothing otherwise.
ExtractedEntries(result) ==
    IF result.success /\ result.extracted.shape \in {"dicts", "nested"}
    THEN result.extracted.entries ELSE <<>>

\* _extract_listing is called for url; ret names the caller to return to.
CallExtract(url, ret) ==
    /\ ext' = [url |-> url, ret |-> ret, entries |-> <<>>,
               first |-> [success |-> FALSE]]
    /\ pc' = "ext_call"

\* _crawl_via_web starts: the root listing of the session branch is asked for.
WebStart ==
    /\ pc = "web"
    /\ site' \in Sites(world)
    /\ CallExtract(TreeUrl(branch), "root")
    /\ UNCHANGED <<sessionVars, fetchVars, branch, probe_i, probes, apiVars, file_tree,
                   key_files, visited, debug_html, sem_value, root, stack, renders,
                   blueprint>>

\* An extraction that renders its URL whether or not it was visited before.
ExtractCallUnguarded ==
    /\ pc = "ext_call"
    /\ ~SemLocked(sem_value, sem_waiters)
    /\ visited' = visited \cup {ext.url}
    /\ sem_value' = sem_value - 1
    /\ renders' = Append(renders, ext.url)
    /\ pc' = "render1"
    /\ UNCHANGED <<sessionVars, fetchVars, branch, probe_i, probes, apiVars, file_tree,
                   key_files, debug_html, site, ext, root, stack, blueprint>>

\* _extract_listing up to the first render: a visited URL returns [] at once.
ExtractCall ==
    /\ pc = "ext_call"
    /\ IF ext.url \in visited
       THEN /\ pc' = "ext_ret"
            /\ UNCHANGED <<visited, sem_value, renders>>
       ELSE /\ ~SemLocked(sem_value, sem_waiters)
            /\ visited' = visited \cup {ext.url}
            /\ sem_value' = sem_value - 1
            /\ renders' = Append(renders, ext.url)
            /\ pc' = "render1"
    /\ UNCHANGED <<sessionVars, fetchVars, branch, probe_i, probes, apiVars, file_tree,
                   key_files, debug_html, site, ext, root, stack, blueprint>>

\* The render with the primary schema answers.  The permit is released; with
\* entries the call returns, without any the same URL is rendered with the
\* alternate schema behind a second "async with self._semaphore", which takes
\* the permit again without suspending.
RenderPrimaryReturn ==
    /\ pc = "render1"
    /\ \E o \in RenderOutcomes :
          LET result  == RenderResult(site, ext.url, "primary", o)
              entries == ExtractedEntries(result)
          IN  IF o = "raise"
              THEN /\ pc' = "raised"
                   /\ sem_value' = sem_value + 1
                   /\ UNCHANGED <<ext, renders>>
              ELSE IF entries # <<>>
              THEN /\ pc' = "ext_ret"
                   /\ ext' = [ext EXCEPT !.entries = entries, !.first = result]
                   /\ sem_value' = sem_value + 1
                   /\ UNCHANGED renders
              ELSE /\ pc' = "render2"
                   /\ ext' = [ext EXCEPT !.first = result]
                   /\ renders' = Append(renders, ext.url)
                   /\ ~SemLocked(sem_value + 1, sem_waiters)
                   /\ sem_value' = (sem_value + 1) - 1
    /\ UNCHANGED <<sessionVars, fetchVars, branch, probe_i, probes, apiVars, file_tree,
                   key_files, visited, debug_html, site, root, stack, blueprint>>

\* The markdown fallback and the debug excerpt that end _extract_listing.
AfterMarkup(first, entries) ==
    IF entries = <<>> /\ first.success /\ first.markdown # <<>>
    THEN parse_markdown_listing(first.markdown) ELSE entries

\* A faulty end, for comparison: the markup of every page whose first render
\* succeeded is kept, entries or none.
DebugAfterAlways(first, entries, old) ==
    IF first.success
    THEN Take(IF first.cleaned_html # <<>> THEN first.cleaned_html ELSE first.html,
              DEBUG_HTML_CAP)
    ELSE old

DebugAfter(first, entries, old) ==
    IF entries = <<>> /\ first.success
    THEN Take(IF first.cleaned_html # <<>> THEN first.cleaned_html ELSE first.html,
              DEBUG_HTML_CAP)
    ELSE old

\* The render with the alternate schema answers.
RenderAltReturn ==
    /\ pc = "render2"
    /\ \E o \in RenderOutcomes :
          LET result  == RenderResult(site, ext.url, "alt", o)
              entries == AfterMarkup(ext.first, ExtractedEntries(result))
          IN  /\ sem_value' = sem_value + 1
              /\ IF o = "raise"
                 THEN pc' = "raised" /\ UNCHANGED <<ext, debug_html>>
                 ELSE /\ pc' = "ext_ret"
                      /\ ext' = [ext EXCEPT !.entries = entries]
                      /\ debug_html' = DebugAfter(ext.first, entries, debug_html)
    /\ UNCHANGED <<sessionVars, fetchVars, branch, probe_i, probes, apiVars, file_tree,
                   key_files, visited, site, root, stack, renders, blueprint>>

\* A faulty loop, for comparison: it takes the alternate candidates from the
\* end of the list.
NextAltFromEnd(k, b) ==
    LET other == {j \in 1..Len(CANDIDATE_BRANCHES) :
                     CANDIDATE_BRANCHES[j] # b /\ (k = 0 \/ j < k)}
    IN  IF other = {} THEN 0 ELSE SetMax(other)

\* The first index above k of a candidate branch other than the session branch,
\* 0 if there is none: the loop over alternate branches of _crawl_via_web.
NextAlt(k, b) ==
    LET later == {j \in (k + 1)..Len(CANDIDATE_BRANCHES) : CANDIDATE_BRANCHES[j] # b}
    IN  IF later = {} THEN 0 ELSE SetMin(later)

\* The cap test of the rendered tier's key-file registration.
WebUnderCap(kf) == Len(kf) < MAX_KEY_FILES

\* The key-file test of both entry loops of the rendered tier.
WebIsKey(name) == is_key_file(name)

NewFrame(url, prefix, depth) ==
    [url |-> url, prefix |-> prefix, depth |-> depth, entries |-> <<>>, i |-> 1,
     paths |-> <<>>]

\* _extract_listing returns to its caller: the root listing, an alternate
\* branch's root listing (the first with entries becomes the session branch),
\* or a directory of the walk.
ExtractReturn ==
    /\ pc = "ext_ret"
    /\ CASE ext.ret = "root" ->
              IF ext.entries # <<>> \/ NextAlt(0, branch) = 0
              THEN /\ root' = [entries |-> ext.entries, i |-> 1, alt |-> 0]
                   /\ pc' = "web_loop"
                   /\ UNCHANGED <<ext, branch, stack>>
              ELSE /\ root' = [root EXCEPT !.alt = NextAlt(0, branch)]
                   /\ CallExtract(TreeUrl(CANDIDATE_BRANCHES[NextAlt(0, branch)]), "alt")
                   /\ UNCHANGED <<branch, stack>>
         [] ext.ret = "alt" ->
              IF ext.entries # <<>>
              THEN /\ branch' = CANDIDATE_BRANCHES[root.alt]
                   /\ root' = [entries |-> ext.entries, i |-> 1, alt |-> root.alt]
                   /\ pc' = "web_loop"
                   /\ UNCHANGED <<ext, stack>>
              ELSE IF NextAlt(root.alt, branch) = 0
              THEN /\ root' = [entries |-> <<>>, i |-> 1, alt |-> root.alt]
                   /\ pc' = "web_loop"
                   /\ UNCHANGED <<ext, branch, stack>>
              ELSE /\ root' = [root EXCEPT !.alt = NextAlt(root.alt, branch)]
                   /\ CallExtract(
                         TreeUrl(CANDIDATE_BRANCHES[NextAlt(root.alt, branch)]), "alt")
                   /\ UNCHANGED <<branch, stack>>
         [] ext.ret = "walk" ->
              /\ stack' = [stack EXCEPT ![Len(stack)].entries = ext.entries]
              /\ pc' = "walk_loop"
              /\ UNCHANGED <<ext, branch, root>>
    /\ UNCHANGED <<sessionVars, fetchVars, probe_i, probes, apiVars, file_tree, key_files,
                   visited, debug_html, sem_value, site, renders, blueprint>>

\* One turn of the loop over the root entries in _crawl_via_web; after the last
\* entry the tier is done.
WebRootEntry ==
    /\ pc = "web_loop"
    /\ IF root.i > Len(root.entries)
       THEN /\ pc' = "discovered"
            /\ UNCHANGED <<root, stack, file_tree, key_files>>
       ELSE LET e      == root.entries[root.i]
                name   == clean_path(Strip(e.name))
            IN  /\ root' = [root EXCEPT !.i = @ + 1]
                /\ IF name = <<>> \/ ~is_valid_path(name)
                   THEN UNCHANGED <<pc, stack, file_tree, key_files>>
                   ELSE IF IsDirEntry(e)
                   THEN /\ file_tree' = Append(file_tree, name \o <<"/">>)
                        /\ UNCHANGED key_files
                        /\ IF Lower(name) \in TARGET_DIRS
                           THEN /\ stack' = <<NewFrame(resolve_link(e.link), name, 1)>>
                                /\ pc' = "walk_enter"
                           ELSE UNCHANGED <<pc, stack>>
                   ELSE /\ file_tree' = Append(file_tree, name)
                        /\ key_files' = (IF WebIsKey(name) /\ WebUnderCap(key_files)
                                         THEN DictPut(key_files, name, <<>>)
                                         ELSE key_files)
                        /\ UNCHANGED <<pc, stack>>
    /\ UNCHANGED <<sessionVars, fetchVars, branch, probe_i, probes, apiVars, visited,
                   debug_html, sem_value, site, ext, renders, blueprint>>

\* A walk that asks for the listing of its directory at any depth.
WalkEnterUnbounded ==
    /\ pc = "walk_enter"
    /\ CallExtract(stack[Len(stack)].url, "walk")
    /\ UNCHANGED <<sessionVars, fetchVars, branch, probe_i, probes, apiVars, file_tree,
                   key_files, visited, debug_html, sem_value, site, root, stack,
                   renders, blueprint>>

\* _walk_web_directory is entered: beyond the maximum depth it returns [] at
\* once, otherwise it asks for the listing of its directory.
WalkEnter ==
    /\ pc = "walk_enter"
    /\ IF stack[Len(stack)].depth > MAX_DEPTH
       THEN pc' = "walk_ret" /\ UNCHANGED ext
       ELSE CallExtract(stack[Len(stack)].url, "walk")
    /\ UNCHANGED <<sessionVars, fetchVars, branch, probe_i, probes, apiVars, file_tree,
                   key_files, visited, debug_html, sem_value, site, root, stack,
                   renders, blueprint>>

\* One turn of the loop over the entries of the innermost directory.
WalkEntry ==
    /\ pc = "walk_loop"
    /\ LET top == Len(stack)
           f   == stack[top]
       IN  IF f.i > Len(f.entries)
           THEN pc' = "walk_ret" /\ UNCHANGED <<stack, key_files>>
           ELSE LET e    == f.entries[f.i]
                    name == clean_path(Strip(e.name))
                    full == f.prefix \o <<"/">> \o name
                    g    == [f EXCEPT !.i = @ + 1]
                IN  IF name = <<>> \/ ~is_valid_path(name)
                    THEN /\ stack' = [stack EXCEPT ![top] = g]
                         /\ UNCHANGED <<pc, key_files>>
                    ELSE IF IsDirEntry(e)
                    THEN /\ stack' = Append(
                                [stack EXCEPT ![top] =
                                    [g EXCEPT !.paths = Append(@, full \o <<"/">>)]],
                                NewFrame(resolve_link(e.link), full, f.depth + 1))
                         /\ pc' = "walk_enter"
                         /\ UNCHANGED key_files
                    ELSE /\ stack' = [stack EXCEPT ![top] =
                                        [g EXCEPT !.paths = Append(@, full)]]
                         /\ key_files' = (IF WebIsKey(name) /\ WebUnderCap(key_files)
                                          THEN DictPut(key_files, full, <<>>)
                                          ELSE key_files)
                         /\ UNCHANGED pc
    /\ UNCHANGED <<sessionVars, fetchVars, branch, probe_i, probes, apiVars, file_tree,
                   visited, debug_html, sem_value, site, ext, root, renders,
                   blueprint>>

\* _walk_web_directory returns its paths: to the directory above, or to the
\* root loop, which extends the file list with them.
WalkReturn ==
    /\ pc = "walk_ret"
    /\ LET top == Len(stack)
           sub == stack[top].paths
       IN  IF top = 1
           THEN /\ file_tree' = file_tree \o sub
                /\ stack' = <<>>
                /\ pc' = "web_loop"
           ELSE /\ stack' = [SubSeq(stack, 1, top - 1) EXCEPT
                               ![top - 1].paths = @ \o sub]
                /\ pc' = "walk_loop"
                /\ UNCHANGED file_tree
    /\ UNCHANGED <<sessionVars, fetchVars, branch, probe_i, probes, apiVars, key_files,
                   visited, debug_html, sem_value, site, ext, root, renders,
                   blueprint>>

(***************************************************************************)
(* The specifications.                                                     *)
(***************************************************************************)

Init == InitSession("small") \/ InitSession("wide")

Next ==
    \/ Start
    \/ ProbeReturn
    \/ TreeReturn
    \/ WebStart
    \/ ExtractCall
    \/ RenderPrimaryReturn
    \/ RenderAltReturn
    \/ ExtractReturn
    \/ WebRootEntry
    \/ WalkEnter
    \/ WalkEntry
    \/ WalkReturn
    \/ FetchAll
    \/ \E i \in DOMAIN tasks : RawReturn(i)
    \/ \E i \in DOMAIN tasks : Resume(i)
    \/ GatherReturn
    \/ Assemble

Spec == Init /\ [][Next]_vars

(***************************************************************************)
(* The crawl up to the end of discovery, over the trees around the         *)
(* key-file cap.                                                           *)
(***************************************************************************)

NextDiscovery ==
    \/ Start
    \/ ProbeReturn
    \/ TreeReturn
    \/ WebStart
    \/ ExtractCall
    \/ RenderPrimaryReturn
    \/ RenderAltReturn
    \/ ExtractReturn
    \/ WebRootEntry
    \/ WalkEnter
    \/ WalkEntry
    \/ WalkReturn

SpecDiscovery == InitSession("cap") /\ [][NextDiscovery]_vars

(***************************************************************************)
(* _clean_path on its own: applied to a path, and again to its result.     *)
(***************************************************************************)

\* What the paths are built from: noise words in both letter cases, the
\* separators the cleaning strips, and a name.
PathTokens ==
    { <<"F", "o", "o", "t", "e", "r">>,
      <<"f", "o", "o", "t", "e", "r">>,
      <<"S", "k", "i", "p", " ", "t", "o", " ", "c", "o", "n", "t", "e", "n", "t">>,
      <<"/">>,
      <<" ">>,
      <<"x">> }

\* The paths of up to n tokens.
RECURSIVE Paths(_)
Paths(n) ==
    IF n = 0 THEN {<<>>}
    ELSE LET shorter == Paths(n - 1)
         IN  shorter \cup {p \o t : p \in shorter, t \in PathTokens}

crawlVars == <<world, has_aiohttp, explicit_branch, branch, pc, probe_i, probes,
         api_tree,
               tree_resp, tier, file_tree, key_files, visited, debug_html,
               sem_value, sem_waiters, tasks, faults_left, site, ext, root,
               stack, renders, blueprint>>

\* No crawl runs.
NoCrawl ==
    /\ world = "pure"
    /\ has_aiohttp = FALSE
    /\ explicit_branch = <<>>
    /\ branch = MAIN
    /\ pc = "idle"
    /\ probe_i = 0
    /\ probes = <<>>
    /\ api_tree = NoTree
    /\ tree_resp = NoResp
    /\ tier = "none"
    /\ file_tree = <<>>
    /\ key_files = <<>>
    /\ visited = {}
    /\ debug_html = <<>>
    /\ sem_value = CONCURRENCY_LIMIT
    /\ sem_waiters = <<>>
    /\ tasks = <<>>
    /\ faults_left = 0
    /\ site = NoSite
    /\ ext = NoExt
    /\ root = NoRoot
    /\ stack = <<>>
    /\ renders = <<>>
    /\ blueprint = NoBlueprint

InitClean ==
    /\ NoCrawl
    /\ pure \in {[fn |-> "clean_path", stage |-> 0, input |-> p,
                   once |-> <<>>, twice |-> <<>>] : p \in Paths(MaxTokens)}

\* clean = _clean_path(path)
CleanOnce ==
    /\ pure.fn = "clean_path"
    /\ pure.stage = 0
    /\ pure' = [pure EXCEPT !.stage = 1, !.once = clean_path(pure.input)]
    /\ UNCHANGED crawlVars

\* _clean_path(clean): the function applied to its own result
CleanAgain ==
    /\ pure.fn = "clean_path"
    /\ pure.stage = 1
    /\ pure' = [pure EXCEPT !.stage = 2, !.twice = clean_path(pure.once)]
    /\ UNCHANGED crawlVars

NextClean == CleanOnce \/ CleanAgain

SpecClean == InitClean /\ [][NextClean]_vars

(***************************************************************************)
(* The way of one raw body: fetched by _fetch_raw_content, stored for its  *)
(* candidate, embedded in the blueprint by _build_blueprint.               *)
(***************************************************************************)

\* n times the character c
Fill(c, n) == [i \in 1..n |-> c]

\* The lengths of the run that opens a body: none, one character, and the
\* lengths around the validation window and the two caps.
RunLengths ==
    {0, 1}
      \cup ((VALIDATION_WINDOW - ContentMargin)..(VALIDATION_WINDOW + ContentMargin))
      \cup ((BLUEPRINT_CONTENT_CAP - ContentMargin)..(BLUEPRINT_CONTENT_CAP + ContentMargin))
      \cup ((RAW_CONTENT_CAP - ContentMargin)..(RAW_CONTENT_CAP + ContentMargin))

\* The raw bodies: a run of blanks, line ends or letters, then nothing, code,
\* an error page or an error token.
LongBodies ==
    {Fill(c, n) \o tail :
        c \in {" ", "\n", "x"}, n \in RunLengths,
        tail \in {<<>>, BODY_CODE, BODY_HTML_404, STR_404}}

\* The candidate the body is fetched for.
ContentPath == TreeScenarioA[2].path

InitContent ==
    /\ NoCrawl
    /\ pure \in {[fn |-> "content", stage |-> 0, input |-> b,
                   once |-> <<>>, twice |-> <<>>] : b \in LongBodies}

\* The endpoint answers 200 with the body: what _fetch_raw_content returns, and
\* with it what the loop after the gather stores for the candidate.
FetchBody ==
    /\ pure.fn = "content"
    /\ pure.stage = 0
    /\ pure' = [pure EXCEPT !.stage = 1,
                            !.once = fetch_raw_content(RespOk(pure.input))]
    /\ UNCHANGED crawlVars

\* _build_blueprint for the session that tracked the candidate: the key_files
\* and the errors.files_not_found it emits.
EmbedContent ==
    /\ pure.fn = "content"
    /\ pure.stage = 1
    /\ LET bp == build_blueprint(DictPut(<<>>, ContentPath, pure.once), <<>>,
                                 MAIN, {})
       IN  pure' = [pure EXCEPT !.stage = 2,
                                !.twice = [key_files |-> bp.key_files,
                                           files_not_found |-> bp.files_not_found]]
    /\ UNCHANGED crawlVars

NextContent == FetchBody \/ EmbedContent

SpecContent == InitContent /\ [][NextContent]_vars

(***************************************************************************)
(* Two crawls at once.  crawl_github_repo builds one GitHubSpider for each *)
(* call; the event loop runs one coroutine at a time and passes to another *)
(* only where the running one is suspended.  The variables of the session  *)
(* hold the spider that runs; pure holds the spider that waits, the        *)
(* answers the remote gives, and what a crawl that ran alone returned.     *)
(***************************************************************************)

\* The attributes of the running spider.
Spider ==
    [branch |-> branch, pc |-> pc, probe_i |-> probe_i, probes |-> probes,
     api_tree |-> api_tree, tree_resp |-> tree_resp, tier |-> tier,
     file_tree |-> file_tree, key_files |-> key_files, visited |-> visited,
     debug_html |-> debug_html, sem_value |-> sem_value,
     sem_waiters |-> sem_waiters, tasks |-> tasks, faults_left |-> faults_left,
     site |-> site, ext |-> ext, root |-> root, stack |-> stack,
     renders |-> renders, blueprint |-> blueprint]

\* GitHubSpider.__init__: the attributes of a new spider for the branch
\* argument b, each accumulator a new empty object and the limiter a new
\* semaphore.
NewSpider(b) ==
    [branch |-> IF b # <<>> THEN b ELSE MAIN, pc |-> "start", probe_i |-> 0,
     probes |-> <<>>, api_tree |-> NoTree, tree_resp |-> NoResp, tier |-> "none",
     file_tree |-> <<>>, key_files |-> <<>>, visited |-> {},
     debug_html |-> <<>>, sem_value |-> CONCURRENCY_LIMIT,
     sem_waiters |-> <<>>, tasks |-> <<>>, faults_left |-> FaultBudget(world),
     site |-> NoSite, ext |-> NoExt, root |-> NoRoot, stack |-> <<>>,
     renders |-> <<>>, blueprint |-> NoBlueprint]

\* The spider s runs from here.
Runs(s) ==
    /\ branch' = s.branch
    /\ pc' = s.pc
    /\ probe_i' = s.probe_i
    /\ probes' = s.probes
    /\ api_tree' = s.api_tree
    /\ tree_resp' = s.tree_resp
    /\ tier' = s.tier
    /\ file_tree' = s.file_tree
    /\ key_files' = s.key_files
    /\ visited' = s.visited
    /\ debug_html' = s.debug_html
    /\ sem_value' = s.sem_value
    /\ sem_waiters' = s.sem_waiters
    /\ tasks' = s.tasks
    /\ faults_left' = s.faults_left
    /\ site' = s.site
    /\ ext' = s.ext
    /\ root' = s.root
    /\ stack' = s.stack
    /\ renders' = s.renders
    /\ blueprint' = s.blueprint

\* What the remote answers, request by request: which candidates the probe
\* finds, the answer of the tree endpoint, the pages behind the renderer, how
\* a render with each query ends, and the branches the raw-content endpoint
\* serves files on.
Scripts ==
    [probe_ok : {{}, {2}},
     tree     : {TreeResp("object", TreeScenarioA),
                 [kind |-> "response", status |-> 403, json |-> "", tree |-> <<>>]},
     site     : {SiteAlpha, SiteBeta, SiteGamma},
     primary  : {"ok", "unsuccessful"},
     alt      : {"ok", "raise"},
     serving  : {Range(CANDIDATE_BRANCHES) \cup {RELEASE},
                 Range(CANDIDATE_BRANCHES) \ {MAIN}}]

\* crawl() came to its end: with a Blueprint, or with the exception of a
\* render.
Returned(s) == s.pc \in {"done", "raised"}

\* What the caller of crawl_github_repo gets from the spider s.
Outcome(s) == [pc |-> s.pc, blueprint |-> s.blueprint]

\* The two calls are made against one remote: the script is drawn.
Cast ==
    /\ pure = NoPure
    /\ pc = "start"
    /\ pure' \in {[fn |-> "pair", phase |-> "alone", parked |-> <<>>,
                   script |-> s, alone |-> <<>>] : s \in Scripts}
    /\ UNCHANGED crawlVars

\* The step of the running spider is answered as the script says.
Scripted ==
    LET s == pure.script
    IN  /\ pc = "probe" => probes'[Len(probes')].ok = (probe_i \in s.probe_ok)
        /\ pc = "tree" => /\ tree_resp' = Answer(s.tree)
                          /\ api_tree' = fetch_tree_via_api(has_aiohttp, s.tree)
        /\ pc = "web" => site' = s.site
        /\ pc = "render1" =>
              /\ pc' # "raised"
              /\ ext'.first = RenderResult(site, ext.url, "primary", s.primary)
        /\ pc = "render2" =>
              IF s.alt = "raise" THEN pc' = "raised"
              ELSE /\ pc' # "raised"
                   /\ ext'.entries =
                        AfterMarkup(ext.first,
                           ExtractedEntries(RenderResult(site, ext.url, "alt", s.alt)))
        /\ pc = "gather" =>
              \A i \in DOMAIN tasks :
                 Len(tasks'[i].got) > Len(tasks[i].got) =>
                    /\ tasks'[i].got[Len(tasks'[i].got)]
                          = (tasks[i].log[Len(tasks[i].log)] \in s.serving)
                    /\ ~tasks'[i].only404

\* One step of the spider that runs.
CrawlStep ==
    /\ pure.fn = "pair"
    /\ Next
    /\ Scripted

\* A crawl ran alone to its end; its outcome is kept, and crawl_github_repo is
\* called twice more, with the same arguments: two new spiders.
Together ==
    /\ pure.fn = "pair"
    /\ pure.phase = "alone"
    /\ Returned(Spider)
    /\ pure' = [pure EXCEPT !.phase = "together", !.alone = Outcome(Spider),
                            !.parked = NewSpider(explicit_branch)]
    /\ Runs(NewSpider(explicit_branch))
    /\ UNCHANGED <<world, has_aiohttp, explicit_branch>>

\* The coroutine of the running spider is suspended (or has not started, or
\* has returned): at an await on the network or on the gather.
Suspended(s) ==
    s.pc \in {"start", "probe", "tree", "gather", "render1", "render2",
              "done", "raised"}

\* A pair of crawls in which both spiders use one visited set, as two calls of
\* one spider's crawl() would.
SwitchSharingVisited ==
    /\ pure.fn = "pair"
    /\ pure.phase = "together"
    /\ Suspended(Spider)
    /\ ~Returned(pure.parked)
    /\ pure' = [pure EXCEPT !.parked = Spider]
    /\ Runs([pure.parked EXCEPT !.visited = visited])
    /\ UNCHANGED <<world, has_aiohttp, explicit_branch>>

\* The event loop passes from the running spider to the waiting one.  Each
\* spider keeps its own attributes: nothing of the one is carried to the other.
Switch ==
    /\ pure.fn = "pair"
    /\ pure.phase = "together"
    /\ Suspended(Spider)
    /\ ~Returned(pure.parked)
    /\ pure' = [pure EXCEPT !.parked = Spider]
    /\ Runs(pure.parked)
    /\ UNCHANGED <<world, has_aiohttp, explicit_branch>>

NextPair ==
    \/ Cast
    \/ CrawlStep
    \/ Together
    \/ Switch

SpecPair == InitSession("small") /\ [][NextPair]_vars

(***************************************************************************)
(* The crawl whose network operations all come to an end: an answer that   *)
(* is awaited arrives, and the coroutine that can run does run.            *)
(***************************************************************************)

\* A request goes out or an awaited answer arrives, and the caller goes on.
Awaited ==
    \/ Start
    \/ ProbeReturn
    \/ TreeReturn
    \/ WebStart
    \/ ExtractCall
    \/ RenderPrimaryReturn
    \/ ExtractReturn
    \/ WalkEnter
    \/ WalkReturn
    \/ \E i \in DOMAIN tasks : RawReturn(i)
    \/ \E i \in DOMAIN tasks : Resume(i)
    \/ GatherReturn

\* The steps that wait for nothing but their turn: at these points of crawl()
\* the step has no other condition.
RunPoints == {"discovered", "assemble", "render2", "web_loop", "walk_loop"}

GoesOn ==
    \/ FetchAll
    \/ Assemble
    \/ RenderAltReturn
    \/ WebRootEntry
    \/ WalkEntry

\* The session of the wide world whose raw-content exchanges all succeed.
InitQuiet ==
    /\ world = "wide"
    /\ has_aiohttp \in ClientInstalled("wide")
    /\ explicit_branch \in ExplicitBranches("wide")
    /\ branch = NewSpider(explicit_branch).branch
    /\ pc = "start"
    /\ probe_i = 0
    /\ probes = <<>>
    /\ api_tree = NoTree
    /\ tree_resp = NoResp
    /\ tier = "none"
    /\ file_tree = <<>>
    /\ key_files = <<>>
    /\ visited = {}
    /\ debug_html = <<>>
    /\ sem_value = CONCURRENCY_LIMIT
    /\ sem_waiters = <<>>
    /\ tasks = <<>>
    /\ faults_left = 0
    /\ site = NoSite
    /\ ext = NoExt
    /\ root = NoRoot
    /\ stack = <<>>
    /\ renders = <<>>
    /\ blueprint = NoBlueprint
    /\ pure = NoPure

\* Weak fairness of Awaited, and of GoesOn with its enabling condition written
\* out.
SpecLive ==
    /\ (InitSession("small") \/ InitQuiet) /\ [][Next]_vars
    /\ WF_vars(Awaited)
    /\ ([]<>(pc \notin RunPoints) \/ []<><<GoesOn>>_vars)

(***************************************************************************)
(* Properties.                                                             *)
(***************************************************************************)

\* C1: at every point of a crawl the session tracks at most MAX_KEY_FILES
\* key-file candidates.
C1_KeyFilesWithinCap == Len(key_files) <= MAX_KEY_FILES

\* The network operations in flight: the branch probe, the tree request or the
\* page render crawl() is waiting for, and the raw-content requests of the tasks.
NetworkOpsInFlight ==
    (IF pc \in {"probe", "tree", "render1", "render2"} THEN 1 ELSE 0)
        + Cardinality({i \in DOMAIN tasks : tasks[i].st = "inflight"})

\* C2: at no point are more than CONCURRENCY_LIMIT network operations of one
\* session in flight.
C2_ConcurrencyBound == NetworkOpsInFlight <= CONCURRENCY_LIMIT

\* The limit is reached while another candidate waits for a permit.
C2_LimitReached ==
    /\ NetworkOpsInFlight = CONCURRENCY_LIMIT
    /\ \E i \in DOMAIN tasks : tasks[i].st = "waiting"

\* The order the specification gives for the raw-content requests of one
\* candidate: the session branch, then main, master, develop, dev without it.
FallbackOrder ==
    <<branch>> \o SelectSeq(<<<<"m", "a", "i", "n">>,
                              <<"m", "a", "s", "t", "e", "r">>,
                              <<"d", "e", "v", "e", "l", "o", "p">>,
                              <<"d", "e", "v">>>>,
                            LAMBDA b : b # branch)

\* C3: the requests of every candidate follow the fallback order from its
\* start, none is repeated, and a request that returned validated content is
\* the last one of its candidate.
C3_BranchFallbackOrder ==
    \A i \in DOMAIN tasks :
        LET t == tasks[i]
        IN  /\ Len(t.log) <= Len(FallbackOrder)
            /\ \A k \in DOMAIN t.log : t.log[k] = FallbackOrder[k]
            /\ \A k, l \in DOMAIN t.log : k # l => t.log[k] # t.log[l]
            /\ Len(t.got) <= Len(t.log)
            /\ \A k \in DOMAIN t.got : t.got[k] => k = Len(t.log)

\* A candidate of a session on a branch other than main got its content from
\* the third branch of the order.
C3_FellBackTwice ==
    /\ branch # MAIN
    /\ \E i \in DOMAIN tasks :
          /\ tasks[i].st = "done"
          /\ Len(tasks[i].log) = 3
          /\ tasks[i].got = <<FALSE, FALSE, TRUE>>

\* C4: a failure of the structured tier never aborts the crawl: no exception
\* leaves crawl() after the tree endpoint has answered.
C4_TierFailureNeverAborts == pc # "raised"

\* C5: a content fetch exists only once discovery is over, the blueprint exists
\* only once every fetch has ended, and without a candidate there is no fetch.
C5_StagesInOrder ==
    /\ tasks # <<>> => /\ pc \in {"gather", "assemble", "done"}
                       /\ stack = <<>>
                       /\ tier \in {"api", "web"}
    /\ pc = "gather" => key_files # <<>>
    /\ blueprint.made => \A i \in DOMAIN tasks : tasks[i].st = "done"
    /\ (blueprint.made /\ key_files = <<>>) => tasks = <<>>

\* A blueprint assembled after a batch in which a candidate went through
\* several branches, its list found by the page walker.
C5_AssembledAfterBatch ==
    /\ blueprint.made
    /\ tier = "web"
    /\ \E i \in DOMAIN tasks : Len(tasks[i].log) >= 2

\* C6: every path of the blueprint's file_tree, and every key and path of its
\* key_files, is a valid path.
C6_ValidityClosure ==
    blueprint.made =>
        /\ \A i \in DOMAIN blueprint.bp.file_tree :
              is_valid_path(blueprint.bp.file_tree[i])
        /\ \A i \in DOMAIN blueprint.bp.key_files :
              /\ is_valid_path(blueprint.bp.key_files[i].key)
              /\ is_valid_path(blueprint.bp.key_files[i].path)

\* A blueprint with files and contents, from a session whose file list held a
\* path that does not survive the cleaning of the assembly.
C6_InvalidLeftOut ==
    /\ blueprint.made
    /\ blueprint.bp.file_tree # <<>>
    /\ blueprint.bp.key_files # <<>>
    /\ \E j \in DOMAIN file_tree : ~is_valid_path(clean_path(file_tree[j]))

\* a comes strictly before b in the order of Python strings.
StrictlyBefore(a, b) ==
    \E k \in 1..(Len(b)) :
        /\ k <= Len(a) + 1
        /\ \A j \in 1..(k - 1) : a[j] = b[j]
        /\ k = Len(a) + 1 \/ Code(a[k]) < Code(b[k])

\* C7: the blueprint's file_tree is strictly ascending and holds no path twice.
C7_SortedNoRepeat ==
    blueprint.made =>
        LET ft == blueprint.bp.file_tree
        IN  /\ \A i \in 1..(Len(ft) - 1) : StrictlyBefore(ft[i], ft[i + 1])
            /\ \A i, j \in DOMAIN ft : i # j => ft[i] # ft[j]

\* A blueprint of several files from a session that recorded two different
\* entries for one cleaned path, the later-sorted path discovered first.
C7_RepeatsMerged ==
    /\ blueprint.made
    /\ Len(blueprint.bp.file_tree) >= 2
    /\ \E i, j \in DOMAIN file_tree :
          /\ i < j
          /\ file_tree[i] # file_tree[j]
          /\ clean_path(file_tree[i]) = clean_path(file_tree[j])
    /\ \E i, j \in DOMAIN file_tree :
          /\ i < j
          /\ StrictlyBefore(clean_path(file_tree[j]), clean_path(file_tree[i]))

\* C8: cleaning a cleaned path changes nothing.
C8_CleanIdempotent == pure.stage = 2 => pure.twice = pure.once

\* The names under which the blueprint reports contents, and failures.
BlueprintKeys == {blueprint.bp.key_files[i].key : i \in DOMAIN blueprint.bp.key_files}

NotFound == {blueprint.bp.files_not_found[i] : i \in DOMAIN blueprint.bp.files_not_found}

\* C9: every tracked candidate is reported in exactly one place: among the key
\* files when its stored content is present and valid, otherwise among the
\* files not found; the list of those is there only when it is not empty.
C9_Partition ==
    blueprint.made =>
        /\ \A k \in DOMAIN key_files :
              LET name == clean_path(key_files[k].key)
                  ok   == key_files[k].content # <<>>
                             /\ is_valid_content(key_files[k].content)
              IN  /\ ok  => name \in BlueprintKeys /\ name \notin NotFound
                  /\ ~ok => name \in NotFound /\ name \notin BlueprintKeys
        /\ blueprint.bp.has_errors <=> blueprint.bp.files_not_found # <<>>

\* C10: after the batch, a candidate holds content exactly when one of its own
\* requests returned validated content, whatever happened to the others, and
\* no failure of a fetch ends the crawl.
C10_FailureStaysLocal ==
    /\ (pc \in {"assemble", "done"} /\ tasks # <<>>) =>
          \A k \in DOMAIN key_files :
              key_files[k].content # <<>> <=>
                  \E i \in DOMAIN tasks :
                      /\ tasks[i].path = key_files[k].key
                      /\ \E j \in DOMAIN tasks[i].got : tasks[i].got[j]
    /\ pc = "raised" => tasks = <<>>
    /\ pc = "gather" => \A i \in DOMAIN tasks :
                            tasks[i].result # <<>> =>
                                \E j \in DOMAIN tasks[i].got : tasks[i].got[j]

\* A finished batch in which one candidate failed on every branch and another
\* one got its content.
C10_OneFailedOneStored ==
    /\ pc = "done"
    /\ \E i \in DOMAIN tasks :
          /\ Len(tasks[i].log) = Len(FallbackOrder)
          /\ \A j \in DOMAIN tasks[i].got : ~tasks[i].got[j]
    /\ \E k \in DOMAIN key_files : key_files[k].content # <<>>

\* C11: extracting one listing never produces an error: whatever the rendering
\* backend does (entries, no entries, an unsuccessful render, a timeout or a
\* raised exception), no exception leaves the rendered tier and the walk of
\* the remaining directories goes on.
C11_ExtractionNeverErrors == tier = "web" => pc # "raised"

\* The frames of the walk are nested one level per frame, and a listing is asked
\* for, rendered or looped over only at a depth of at most MAX_DEPTH.
WalkDepthBounded ==
    /\ \A i \in DOMAIN stack : stack[i].depth = i
    /\ Len(stack) <= MAX_DEPTH + 1
    /\ (stack # <<>> /\ pc \in {"ext_call", "render1", "render2", "ext_ret", "walk_loop"})
          => stack[Len(stack)].depth <= MAX_DEPTH

\* A walk that has returned from beyond the maximum depth.
WalkCutOff == pc = "walk_ret" /\ stack[Len(stack)].depth > MAX_DEPTH

\* C12 (as stated): the walker never requests a listing deeper than the maximum
\* depth, and a walk invoked beyond the maximum depth yields a truncation
\* marker: what it returns is not the empty list.
C12_TruncationMarker ==
    /\ WalkDepthBounded
    /\ WalkCutOff => stack[Len(stack)].paths # <<>>

\* C12 (amended): the walker never requests a listing deeper than the maximum
\* depth, and a walk invoked beyond the maximum depth returns the empty list
\* without requesting a listing, rendering a page or recursing further.
C12_DepthBounded ==
    /\ WalkDepthBounded
    /\ WalkCutOff =>
          /\ stack[Len(stack)].paths = <<>>
          /\ stack[Len(stack)].entries = <<>>
          /\ stack[Len(stack)].url \notin visited
          /\ \A j \in DOMAIN renders : renders[j] # stack[Len(stack)].url

\* A walk five levels below the root has returned, its directory unlisted.
C12_CutOffAtFive ==
    /\ WalkCutOff
    /\ Len(stack) = MAX_DEPTH + 1
    /\ stack[Len(stack)].url \notin visited
    /\ stack[Len(stack)].url \in DOMAIN site

\* C13: within one crawl a directory URL goes to the rendering backend in at
\* most one extraction: a request to extract a URL that was not visited finds
\* no earlier render of it, and a request to extract a visited URL performs no
\* network operation (no render, no permit taken) and returns the empty list.
C13_VisitedOnce ==
    [][pc = "ext_call" =>
          IF ext.url \in visited
          THEN /\ renders' = renders
               /\ sem_value' = sem_value
               /\ visited' = visited
               /\ pc' = "ext_ret"
               /\ ext'.entries = <<>>
          ELSE /\ \A j \in DOMAIN renders : renders[j] # ext.url
               /\ renders' = Append(renders, ext.url)
               /\ ext.url \in visited']_vars

\* The listing of a directory linked to itself: the second request for its URL
\* has returned the empty list and the URL was rendered once.
C13_SelfLinkSkipped ==
    /\ pc = "ext_ret"
    /\ Len(stack) >= 2
    /\ stack[Len(stack)].url = stack[Len(stack) - 1].url
    /\ ext.url = stack[Len(stack)].url
    /\ ext.entries = <<>>
    /\ Cardinality({j \in DOMAIN renders : renders[j] = ext.url}) = 1

\* A directory entry of a listing that the walk expands: at the root a valid
\* name on the target list, below the root any valid name.
Expandable(e, atRoot) ==
    LET name == clean_path(Strip(e.name))
    IN  /\ name # <<>> /\ is_valid_path(name)
        /\ IsDirEntry(e)
        /\ atRoot => Lower(name) \in TARGET_DIRS
        /\ resolve_link(e.link) \notin visited

\* Some listing above the innermost walk still holds a later sibling directory
\* whose expansion has not been issued.
SiblingPending ==
    /\ stack # <<>>
    /\ \/ \E j \in root.i..Len(root.entries) : Expandable(root.entries[j], TRUE)
       \/ \E k \in 1..(Len(stack) - 1) :
             \E j \in stack[k].i..Len(stack[k].entries) :
                 Expandable(stack[k].entries[j], FALSE)

\* C14: the expansions of all sibling subdirectories found at one level are
\* issued together: while the render of one of them is in flight, none of its
\* siblings still waits to be issued.
C14_SiblingsIssuedTogether ==
    (pc \in {"render1", "render2"} /\ stack # <<>>) => ~SiblingPending

\* The directory entries with a valid name in the root listing.
RootDirs ==
    {j \in DOMAIN root.entries :
        LET name == clean_path(Strip(root.entries[j].name))
        IN  name # <<>> /\ is_valid_path(name) /\ IsDirEntry(root.entries[j])}

\* C15: when the root listing has directories and none of them is named like a
\* target directory, top-level directories are shallow-crawled: by the end of
\* the rendered tier the listing of at least one of them was requested.
C15_ShallowCrawl ==
    (/\ tier = "web" /\ pc = "discovered"
     /\ RootDirs # {}
     /\ \A j \in RootDirs :
           Lower(clean_path(Strip(root.entries[j].name))) \notin TARGET_DIRS)
        => \E j \in RootDirs : resolve_link(root.entries[j].link) \in visited

C17_DebugOnlyWhenNoneTracked ==
    blueprint.made =>
        /\ blueprint.bp.has_debug => blueprint.bp.stats.total_key_files_found = 0
        /\ key_files # <<>> => ~blueprint.bp.has_debug /\ blueprint.bp.debug = <<>>

\* A crawl that tracked a candidate after a page was left unparsed has ended
\* without the payload.
C17_UnparsedButTracked ==
    /\ blueprint.made
    /\ key_files # <<>>
    /\ debug_html # <<>>
    /\ ~blueprint.bp.has_debug

\* C18: the resolver probes main, master, develop, dev in this order, issues no
\* probe after the first one that succeeds and returns that candidate; when
\* every probe fails or raises, or there is no HTTP client, it returns main;
\* it never raises.
C18_FirstSuccessfulBranch ==
    /\ Len(probes) <= Len(CANDIDATE_BRANCHES)
    /\ \A i \in DOMAIN probes : probes[i].branch = CANDIDATE_BRANCHES[i]
    /\ \A i \in 1..(Len(probes) - 1) : ~probes[i].ok
    /\ pc = "probe" => /\ Len(probes) < Len(CANDIDATE_BRANCHES)
                       /\ \A i \in DOMAIN probes : ~probes[i].ok
    /\ (pc = "tree" /\ explicit_branch = <<>>) =>
          /\ probes # <<>>
          /\ IF probes[Len(probes)].ok
             THEN branch = probes[Len(probes)].branch
             ELSE Len(probes) = Len(CANDIDATE_BRANCHES) /\ branch = MAIN
    /\ (pc = "web" /\ ~has_aiohttp /\ explicit_branch = <<>>) =>
          probes = <<>> /\ branch = MAIN
    /\ (explicit_branch # <<>> \/ ~has_aiohttp) => probes = <<>>
    /\ pc = "raised" => tier # "none"

\* The resolver has returned develop after main and master failed.
C18_ThirdProbeSucceeded ==
    /\ pc = "tree"
    /\ Len(probes) = 3
    /\ probes[3].ok
    /\ branch = CANDIDATE_BRANCHES[3]

\* The tasks whose every request, on every branch asked, was answered with
\* status 200 and the HTML error page.
Html404Tasks ==
    {i \in DOMAIN tasks :
        tasks[i].st = "done" /\ tasks[i].log # <<>> /\ tasks[i].only404}

\* C19: a candidate that is answered on every branch with status 200 and an
\* HTML error body containing "404" and "not found" has the content rejected
\* each time, is requested on every branch of the fallback chain, and ends in
\* errors.files_not_found and not in key_files.
C19_Html404EndsNotFound ==
    /\ fetch_raw_content(RespOk(BODY_HTML_404)) = <<>>
    /\ \A i \in Html404Tasks :
          /\ tasks[i].log = FetchBranches(branch)
          /\ \A j \in DOMAIN tasks[i].got : ~tasks[i].got[j]
          /\ tasks[i].result = <<>>
          /\ blueprint.made =>
                /\ clean_path(tasks[i].path) \in NotFound
                /\ clean_path(tasks[i].path) \notin BlueprintKeys

\* C20: when the structured tier returns the blobs src/app.ts and README.md,
\* the candidates tracked are src/app.ts and README.md, README.md because its
\* name is in KEY_FILES and src/app.ts because its path lies under a target
\* directory while its filename is no key file, and the blueprint's file_tree
\* is exactly <<README.md, src/app.ts>>.
C20_ScenarioA ==
    (tier = "api" /\ api_tree.tree = TreeScenarioA) =>
        LET readme == TreeScenarioA[2].path
            app    == TreeScenarioA[1].path
        IN  /\ Keys(key_files) = <<app, readme>>
            /\ Lower(readme) \in KEY_FILES
            /\ is_in_target_dir(app)
            /\ ~is_key_file(Split(app, "/")[Len(Split(app, "/"))])
            /\ ~is_in_target_dir(readme)
            /\ file_tree = <<app, readme>>
            /\ blueprint.made => blueprint.bp.file_tree = <<readme, app>>

\* The crawl of the repository of Scenario A has ended with its blueprint.
C20_ScenarioABlueprint ==
    /\ tier = "api"
    /\ api_tree.tree = TreeScenarioA
    /\ blueprint.made
    /\ Len(blueprint.bp.file_tree) = 2

\* The candidate rule: the filename is a key file (known name or keyword) or
\* the path lies under a target directory.
Significant(p) ==
    is_key_file(Split(p, "/")[Len(Split(p, "/"))]) \/ is_in_target_dir(p)

\* The files of the session's file list: the entries not recorded as a
\* directory.
DiscoveredFiles ==
    {j \in DOMAIN file_tree : file_tree[j][Len(file_tree[j])] # "/"}

\* C21: in both discovery tiers, while the cap is not reached, a discovered
\* file is a key-file candidate exactly when its filename is in the known set
\* or holds a keyword or its path lies under a target directory.
C21_SameCandidateRule ==
    (pc = "discovered" /\ Len(key_files) < MAX_KEY_FILES) =>
        \A j \in DiscoveredFiles :
            DictHas(key_files, file_tree[j]) <=> Significant(file_tree[j])

\* C22: the content stored for a candidate after its fetch is at most
\* RAW_CONTENT_CAP characters long and the content of every key_files entry of
\* the blueprint at most BLUEPRINT_CONTENT_CAP, whatever the length of the body.
C22_ContentWithinCaps ==
    /\ pure.stage >= 1 =>
          /\ Len(pure.once) <= RAW_CONTENT_CAP
          /\ pure.once = Take(pure.once, Len(pure.input))
    /\ pure.stage = 2 =>
          \A k \in DOMAIN pure.twice.key_files :
              /\ Len(pure.twice.key_files[k].content) <= BLUEPRINT_CONTENT_CAP
              /\ pure.twice.key_files[k].content =
                    Take(pure.input, Len(pure.twice.key_files[k].content))

\* A body longer than both caps was stored cut to the first and emitted cut to
\* the second.
C22_CutTwice ==
    /\ pure.stage = 2
    /\ Len(pure.input) > RAW_CONTENT_CAP
    /\ Len(pure.once) = RAW_CONTENT_CAP
    /\ pure.twice.key_files # <<>>
    /\ Len(pure.twice.key_files[1].content) = BLUEPRINT_CONTENT_CAP

\* C23: the content emitted for every key_files entry of the blueprint, after
\* both cuts, is non-empty, not whitespace-only and valid content.
C23_EmittedContentValid ==
    pure.stage = 2 =>
        \A k \in DOMAIN pure.twice.key_files :
            /\ pure.twice.key_files[k].content # <<>>
            /\ Strip(pure.twice.key_files[k].content) # <<>>
            /\ is_valid_content(pure.twice.key_files[k].content)

(***************************************************************************)
(* C24                                                                     *)
(***************************************************************************)

\* C24: of two crawls that run interleaved against one remote, each returns
\* what a crawl returns that runs alone against the same answers: the same
\* Blueprint, or the same fatal error.
C24_EachCrawlAsAlone ==
    (pure.fn = "pair" /\ pure.phase = "together") =>
        \A s \in {Spider, pure.parked} :
            Returned(s) => Outcome(s) = pure.alone

\* One crawl has returned a Blueprint with verified key files while the other
\* is in the middle of its own, past its discovery.
C24_ReturnedBesideRunning ==
    /\ pure.fn = "pair" /\ pure.phase = "together"
    /\ pc = "done"
    /\ blueprint.bp.stats.total_key_files_with_content > 0
    /\ pure.parked.pc \in {"gather", "render1", "render2"}
    /\ pure.parked.visited # {} \/ pure.parked.key_files # <<>>

(***************************************************************************)
(* C25                                                                     *)
(***************************************************************************)

\* The requests of every fallback chain: each branch at most once, the session
\* branch and the candidates and no more; every listing rendered at most
\* twice (the third strategy reads the markdown of the first render).
AttemptsBounded ==
    /\ \A i \in DOMAIN tasks :
          /\ Len(tasks[i].log) <= Len(CANDIDATE_BRANCHES) + 1
          /\ \A j, k \in DOMAIN tasks[i].log :
                tasks[i].log[j] = tasks[i].log[k] => j = k
          /\ Range(tasks[i].log) \subseteq Range(CANDIDATE_BRANCHES) \cup {branch}
    /\ \A u \in Range(renders) :
          Cardinality({k \in DOMAIN renders : renders[k] = u}) <= 2

\* C25: when every network operation comes to an end, the crawl returns a
\* Blueprint or ends with a fatal error, and on the way every fallback chain
\* and every extraction cascade stays within its bound.
C25_BoundedAndReturns == []AttemptsBounded /\ <>(pc \in {"done", "raised"})

\* The crawl has returned from the rendered tier of the repository whose src
\* directory links back to itself, after a listing that took both renders and
\* a fallback chain that went through every branch.
C25_ReturnedAfterCycle ==
    /\ pc = "done" /\ tier = "web" /\ site = SiteAlpha
    /\ \E u \in Range(renders) :
          Cardinality({k \in DOMAIN renders : renders[k] = u}) = 2
    /\ \E i \in DOMAIN tasks : Len(tasks[i].log) = Len(FetchBranches(branch))

(***************************************************************************)
(* C26                                                                     *)
(***************************************************************************)

\* The entries the alternate query yields for the page of the running
\* _extract_listing call when its render ends as o.
AltYield(o) == ExtractedEntries(RenderResult(site, ext.url, "alt", o))

WellKnownRootBlobs ==
    {k \in DOMAIN api_tree.tree :
        /\ api_tree.tree[k].dict
        /\ api_tree.tree[k].type = "blob"
        /\ ~Contains(api_tree.tree[k].path, <<"/">>)
        /\ Lower(api_tree.tree[k].path) \in KEY_FILES}

ResolvedBranch ==
    IF explicit_branch # <<>> THEN explicit_branch
    ELSE IF \E i \in DOMAIN probes : probes[i].ok
    THEN probes[SetMin({i \in DOMAIN probes : probes[i].ok})].branch
    ELSE MAIN

\* The alternate candidates that stand before number k in the declared order.
EarlierAlternates(k) ==
    {j \in 1..(k - 1) : CANDIDATE_BRANCHES[j] # branch}

\* A change of the session branch after the resolver: in the rendered tier, on
\* the return of an alternate root listing with entries, to the candidate that
\* listing belongs to, every alternate before it and the session branch's own
\* root having been asked.
BranchChangeAllowed ==
    /\ tier = "web"
    /\ pc = "ext_ret" /\ ext.ret = "alt" /\ ext.entries # <<>>
    /\ branch' = CANDIDATE_BRANCHES[root.alt]
    /\ ext.url = TreeUrl(branch')
    /\ TreeUrl(branch) \in visited
    /\ \A j \in EarlierAlternates(root.alt) : TreeUrl(CANDIDATE_BRANCHES[j]) \in visited
    /\ file_tree = <<>> /\ key_files = <<>>

\* The loop over the alternates: a root listing with entries ends it, and the
\* next alternate asked for is the next in the declared order.
AlternatesInOrder ==
    /\ (pc = "ext_ret" /\ ext.ret \in {"root", "alt"} /\ ext.entries # <<>>)
          => pc' = "web_loop"
    /\ (pc = "ext_ret" /\ pc' = "ext_call" /\ ext'.ret = "alt") =>
          /\ ext.entries = <<>>
          /\ root'.alt > root.alt
          /\ CANDIDATE_BRANCHES[root'.alt] # branch
          /\ \A j \in EarlierAlternates(root'.alt) : j <= root.alt
          /\ ext'.url = TreeUrl(CANDIDATE_BRANCHES[root'.alt])

\* C28: after the resolver (or with a pinned branch) the session branch changes
\* only in the rendered tier and only to the first alternate candidate whose
\* root listing returned entries; a crawl of the structured tier keeps the
\* resolved branch up to its Blueprint; every fallback chain starts with the
\* session branch, which is the branch of the Blueprint.
C28_BranchFrame ==
    /\ [][/\ (pc \notin {"start", "probe"} /\ branch' # branch) => BranchChangeAllowed
          /\ AlternatesInOrder]_vars
    /\ [](/\ (tier = "api" /\ pc \notin {"start", "probe"}) => branch = ResolvedBranch
          /\ \A i \in DOMAIN tasks :
                tasks[i].log # <<>> => tasks[i].log[1] = branch
          /\ pc = "done" => blueprint.bp.branch = branch)

\* The resolver gave the third candidate, its root listing and that of "main"
\* returned nothing, the listing of "master" returned entries: the crawl went
\* on as a crawl of "master", fetched from it first, and returned.
C28_SwitchedToSecondAlternate ==
    /\ pc = "done" /\ tier = "web"
    /\ ResolvedBranch = CANDIDATE_BRANCHES[3]
    /\ branch = CANDIDATE_BRANCHES[2]
    /\ blueprint.bp.branch = branch
    /\ \E i \in DOMAIN tasks : tasks[i].log # <<>> /\ tasks[i].log[1] = branch

\* C29: in every Blueprint, stats.total_key_files_with_content is the number
\* of entries of key_files, stats.files_failed is the number of paths of
\* errors.files_not_found, and stats.total_key_files_found is the sum of the
\* two, also when two tracked candidates clean to the same output path.
C29_StatsAddUp ==
    pc = "done" =>
        LET bp == blueprint.bp
        IN  /\ bp.stats.total_key_files_with_content = Len(bp.key_files)
            /\ bp.stats.files_failed = Len(bp.files_not_found)
            /\ bp.stats.total_key_files_found =
                   bp.stats.total_key_files_with_content + bp.stats.files_failed

\* The permits that are out: one for each content task with a request in
\* flight and one for the page render in flight.
Held ==
    Cardinality({i \in DOMAIN tasks : tasks[i].st = "inflight"})
        + (IF pc \in {"render1", "render2"} THEN 1 ELSE 0)

\* C30: the limiter never deadlocks and never leaks a permit.  The free
\* permits and the held ones always add up to the limit, so between 0 and 8 are
\* held and each holder has exactly one, also a candidate further down its
\* branch list; the walker holds none when it asks for the permit of a
\* listing or goes through a listing's entries; while a task waits in the
\* queue another one holds a permit or has been woken; and all permits are
\* free when the batch has been gathered and when the crawl returns or raises.
C30_PermitsConserved ==
    /\ sem_value + Held = CONCURRENCY_LIMIT
    /\ sem_value \in 0..CONCURRENCY_LIMIT
    /\ Held \in 0..CONCURRENCY_LIMIT
    /\ pc \in {"ext_call", "ext_ret", "web_loop", "walk_loop"} => Held = 0
    /\ (\E i \in DOMAIN tasks : tasks[i].st = "waiting") =>
           \E j \in DOMAIN tasks : tasks[j].st \in {"inflight", "woken"}
    /\ \A i \in DOMAIN sem_waiters : tasks[sem_waiters[i]].st = "waiting"
    /\ pc \in {"assemble", "done", "raised"} =>
           /\ sem_value = CONCURRENCY_LIMIT
           /\ sem_waiters = <<>>
           /\ \A i \in DOMAIN tasks : tasks[i].st = "done"

\* More candidates than there are permits have sent requests, so one of them
\* after waiting in the queue, and the crawl has returned with every permit
\* free.
C30_AllFreeAfterQueue ==
    /\ pc = "done"
    /\ Cardinality({i \in DOMAIN tasks : tasks[i].log # <<>>}) > CONCURRENCY_LIMIT
    /\ sem_value = CONCURRENCY_LIMIT
====
